---- MODULE Spec2Model ----
(***************************************************************************)
(* A model of the geo-compliance classification pipeline:                  *)
(*   prescan -> LLM enrichment -> router -> parallel agents -> finalizer   *)
(* and of the rate-limited LLM gateway the agents share.                   *)
(*                                                                         *)
(* Units.  Time is counted in ticks of 0.2 s.  Confidences, boosts and     *)
(* scores are integers in thousandths (0.80 is 800).  A text is modelled   *)
(* by the set of cue words it contains; each regular expression of the     *)
(* source is the test "one of the cues this pattern matches is present".   *)
(***************************************************************************)
EXTENDS Integers, Sequences, FiniteSets, TLC

VARIABLES
    \* ---- RateLimitedLLM (agent_runner.py) ----
    now,        \* time.monotonic(), in ticks
    last,       \* RateLimitedLLM._last
    lock,       \* RateLimitedLLM._lock : 0 when free, else the holding thread
    jitter,     \* RateLimitedLLM.jitter (ticks)
    tpc,        \* per thread: position inside generate()
    twake,      \* per thread: the time its current sleep() ends
    started,    \* per thread: time inner.generate was entered, -1 before
    called,     \* per thread: time generate() was invoked, -1 before
    \* ---- one call of a pure function (merge_prescan_llm, route_row) ----
    fpc,        \* "input" before the call, "output" after it
    farg,       \* the arguments of the call
    fres,       \* the value returned
    \* ---- one run of the pipeline (start_pipeline.py) ----
    stage,            \* the last stage that finished, or "failed"
    args,             \* the command-line flags and the LLM's behaviour in this run
    features,         \* the input CSV: one feature text per row
    prescan_results,  \* outputs/prescan_results.csv
    enriched,         \* outputs/llm_enriched.csv
    routed,           \* outputs/llm_routed.csv
    tasks,            \* agent_runner.main: the futures, in submission order
    finished,         \* the futures that are done
    rows_out,         \* agent_runner.main: rows_out, in collection order
    aborted,          \* agent_runner.main left the as_completed loop on an exception
    agent_results,    \* outputs/agent_results.csv
    final_results,    \* outputs/final_results.csv
    \* ---- one run of enrich_ambiguous_with_llm (llm_enrichment.py) ----
    apc,        \* position inside enrich_ambiguous_with_llm
    df,         \* the rows read from the prescan CSV
    raw_text,   \* what client.generate does in this run: the text it returns
    llm_calls,  \* the number of calls of client.generate so far
    prompt,     \* the prompt of the last call
    by_index,   \* by_index: feature_index -> LLM object
    dump_file,  \* llm_raw_response.txt
    out_csv     \* the enriched CSV written at the end

rlVars == <<now, last, lock, jitter, tpc, twake, started, called>>
fnVars == <<fpc, farg, fres>>
plVars == <<stage, args, features, prescan_results, enriched, routed, tasks,
            finished, rows_out, aborted, agent_results, final_results>>
enVars == <<apc, df, raw_text, llm_calls, prompt, by_index, dump_file, out_csv>>
vars == <<rlVars, fnVars, plVars, enVars>>

\* what the steps of one component leave alone
notRL == <<fnVars, plVars, enVars>>
notFn == <<rlVars, plVars, enVars>>
notPl == <<rlVars, fnVars, enVars>>
notEn == <<rlVars, fnVars, plVars>>

\* a component that takes no part in the run under study
RLIdle ==
    /\ now = 0 /\ last = 0 /\ lock = 0 /\ jitter = 0
    /\ tpc = << >> /\ twake = << >> /\ started = << >> /\ called = << >>

FnIdle == fpc = "unused" /\ farg = << >> /\ fres = << >>

PlIdle ==
    /\ stage = "unused" /\ args = << >> /\ features = << >>
    /\ prescan_results = << >> /\ enriched = << >> /\ routed = << >>
    /\ tasks = << >> /\ finished = {} /\ rows_out = << >> /\ aborted = FALSE
    /\ agent_results = << >> /\ final_results = << >>

EnIdle ==
    /\ apc = "unused" /\ df = << >> /\ raw_text = << >> /\ llm_calls = 0
    /\ prompt = << >> /\ by_index = << >> /\ dump_file = << >> /\ out_csv = << >>

(***************************************************************************)
(* Bounds of the model.                                                    *)
(***************************************************************************)
NumThreads == 2
MaxTime == 12

Threads == 1..NumThreads

Min(a, b) == IF a <= b THEN a ELSE b
Max(a, b) == IF a >= b THEN a ELSE b

(***************************************************************************)
(* RateLimitedLLM                                                          *)
(***************************************************************************)
\* min_interval_sec = 1.0 s = 5 ticks
MinInterval == 5
\* the jitter sleep is capped at 0.250 s; on the tick grid that is 1 tick
JitterCap == 1

\* the reference point of time.monotonic() is arbitrary: the first call may
\* come before or after _last (0.0) + min_interval
RLInit ==
    /\ now \in {0, MinInterval}
    /\ last = 0
    /\ lock = 0
    /\ jitter \in {0, 2}
    /\ tpc = [t \in Threads |-> "idle"]
    /\ twake = [t \in Threads |-> 0]
    /\ started = [t \in Threads |-> -1]
    /\ called = [t \in Threads |-> -1]
    /\ FnIdle
    /\ PlIdle
    /\ EnIdle

\* the clock advances on its own, between any two steps of any thread
Tick ==
    /\ now < MaxTime
    /\ now' = now + 1
    /\ UNCHANGED <<last, lock, jitter, tpc, twake, started, called, notRL>>

\* wait = (self._last + self.min_interval) - now
WaitNoInterval(t) == last - now

WaitFor(t) == (last + MinInterval) - now

\* now = time.monotonic(); wait = ...; if wait > 0: time.sleep(wait)
\* -- what a thread does on entering the with-block
EnterLocked(t) ==
    /\ lock' = t
    /\ twake' = [twake EXCEPT ![t] = IF WaitFor(t) > 0 THEN now + WaitFor(t) ELSE now]
    /\ tpc' = [tpc EXCEPT ![t] = "sleeping"]

\* generate() is invoked; its first statement is "with self._lock": a free
\* lock is taken at once, a held one blocks the caller.  The threads run the
\* same code, so they are numbered in the order in which they call.
Invoke(t) ==
    /\ tpc[t] = "idle"
    /\ \A u \in Threads : u < t => called[u] >= 0
    /\ called' = [called EXCEPT ![t] = now]
    /\ IF lock = 0
          THEN EnterLocked(t)
          ELSE /\ tpc' = [tpc EXCEPT ![t] = "blocked"]
               /\ UNCHANGED <<lock, twake>>
    /\ UNCHANGED <<now, last, jitter, started, notRL>>

\* a blocked caller gets the lock some time after it is released
Acquire(t) ==
    /\ tpc[t] = "blocked"
    /\ lock = 0
    /\ EnterLocked(t)
    /\ UNCHANGED <<now, last, jitter, started, called, notRL>>

\* time.sleep returns no earlier than the requested duration; then
\* if self.jitter > 0.0: time.sleep(min(self.jitter, 0.250))
WakeWait(t) ==
    /\ tpc[t] = "sleeping"
    /\ now >= twake[t]
    /\ IF jitter > 0
          THEN /\ twake' = [twake EXCEPT ![t] = now + Min(jitter, JitterCap)]
               /\ tpc' = [tpc EXCEPT ![t] = "jittering"]
          ELSE /\ twake' = [twake EXCEPT ![t] = 0]
               /\ tpc' = [tpc EXCEPT ![t] = "ready"]
    /\ UNCHANGED <<now, last, lock, jitter, started, called, notRL>>

WakeJitter(t) ==
    /\ tpc[t] = "jittering"
    /\ now >= twake[t]
    /\ twake' = [twake EXCEPT ![t] = 0]
    /\ tpc' = [tpc EXCEPT ![t] = "ready"]
    /\ UNCHANGED <<now, last, lock, jitter, started, called, notRL>>

StampKeepsLock(t) ==
    /\ tpc[t] = "ready"
    /\ lock = t
    /\ last' = now
    /\ tpc' = [tpc EXCEPT ![t] = "released"]
    /\ UNCHANGED <<now, lock, jitter, twake, started, called, notRL>>

\* self._last = time.monotonic(), then the with-block releases the lock
StampAndRelease(t) ==
    /\ tpc[t] = "ready"
    /\ lock = t
    /\ last' = now
    /\ lock' = 0
    /\ tpc' = [tpc EXCEPT ![t] = "released"]
    /\ UNCHANGED <<now, jitter, twake, started, called, notRL>>

\* return self.inner.generate(prompt)  -- entered after the lock is released
Delegate(t) ==
    /\ tpc[t] = "released"
    /\ started' = [started EXCEPT ![t] = now]
    /\ tpc' = [tpc EXCEPT ![t] = "calling"]
    /\ UNCHANGED <<now, last, lock, jitter, twake, called, notRL>>

\* the underlying client returns a text ...
InnerReturn(t) ==
    /\ tpc[t] = "calling"
    /\ tpc' = [tpc EXCEPT ![t] = "done"]
    /\ UNCHANGED <<now, last, lock, jitter, twake, started, called, notRL>>

\* ... or raises, and the exception propagates to the caller unmodified
InnerRaise(t) ==
    /\ tpc[t] = "calling"
    /\ tpc' = [tpc EXCEPT ![t] = "raised"]
    /\ UNCHANGED <<now, last, lock, jitter, twake, started, called, notRL>>

RLNext ==
    \/ Tick
    \/ \E t \in Threads : Invoke(t)
    \/ \E t \in Threads : Acquire(t)
    \/ \E t \in Threads : WakeWait(t)
    \/ \E t \in Threads : WakeJitter(t)
    \/ \E t \in Threads : StampAndRelease(t)
    \/ \E t \in Threads : Delegate(t)
    \/ \E t \in Threads : InnerReturn(t)
    \/ \E t \in Threads : InnerRaise(t)

SpecRL == RLInit /\ [][RLNext]_vars

(***************************************************************************)
(* The rate limiter under a fair scheduler.  time.monotonic() has no upper *)
(* bound, so time is measured here from a moving origin: the clock always  *)
(* reads MaxTime, and a tick lowers _last and the wake-up times by one.    *)
(* Times so far in the past that they no longer matter stay at 0; the      *)
(* times of the calls and delegations, which the code never reads, are     *)
(* kept only as "has happened" (0 or more) once the clock has moved.       *)
(***************************************************************************)
ShiftBack(x) == IF x > 0 THEN x - 1 ELSE x

Past(x) == IF x > 0 THEN 0 ELSE x

\* _last = 0.0 lies a whole interval or more before the first call, or not
RLLiveInit ==
    /\ now = MaxTime
    /\ last \in {0, MaxTime}
    /\ lock = 0
    /\ jitter \in {0, 2}
    /\ tpc = [t \in Threads |-> "idle"]
    /\ twake = [t \in Threads |-> 0]
    /\ started = [t \in Threads |-> -1]
    /\ called = [t \in Threads |-> -1]
    /\ FnIdle
    /\ PlIdle
    /\ EnIdle

\* one tick of the clock
Rebase ==
    /\ now = MaxTime
    /\ last' = ShiftBack(last)
    /\ twake' = [t \in Threads |-> ShiftBack(twake[t])]
    /\ started' = [t \in Threads |-> Past(started[t])]
    /\ called' = [t \in Threads |-> Past(called[t])]
    /\ UNCHANGED <<now, lock, jitter, tpc, notRL>>

\* the steps of thread t inside generate, once it has called
ThreadStep(t) ==
    \/ Acquire(t)
    \/ WakeWait(t)
    \/ WakeJitter(t)
    \/ StampAndRelease(t)
    \/ Delegate(t)

\* the underlying client's call ends, one way or the other
InnerEnds(t) == InnerReturn(t) \/ InnerRaise(t)

RLLiveNext ==
    \/ Rebase
    \/ \E t \in Threads : Invoke(t)
    \/ \E t \in Threads : ThreadStep(t)
    \/ \E t \in Threads : InnerEnds(t)

\* time passes; a thread that can take its next step takes it; every
\* underlying call returns or raises
SpecRLLive ==
    /\ RLLiveInit
    /\ [][RLLiveNext]_vars
    /\ WF_vars(Rebase)
    /\ \A t \in Threads : WF_vars(ThreadStep(t)) /\ WF_vars(InnerEnds(t))

(***************************************************************************)
(* Values shared by the stages                                             *)
(***************************************************************************)
\* Python's None where a string is expected
None == "<None>"

\* every domain, region and regulation name of the model, in the order
\* Python's sorted() gives them (code point order)
NameOrder ==
    << "Biometrics", "Child Safety", "Content Moderation / Illegal Content",
       "DSA", "EU", "GDPR", "General Compliance", "Privacy & Data Protection",
       "SB976", "SG", "US-CA" >>

Range(q) == {q[i] : i \in 1..Len(q)}

Rank(x) == CHOOSE i \in 1..Len(NameOrder) : NameOrder[i] = x

\* sorted(S) for a set S of names
SortedSet(S) == SelectSeq(NameOrder, LAMBDA x : x \in S)

\* a CSV cell or JSON field holding a list: the list itself ("list"), a string
\* that json.loads decodes to the list ("json"), any other string ("text"),
\* or nothing (None / NaN)
Cell(kind, items) == [kind |-> kind, items |-> items]

\* a number as it arrives: a float, or something float() rejects
Num(v) == [num |-> TRUE, v |-> v]
NotNum == [num |-> FALSE, v |-> 0]

\* round(x, 2) on thousandths: to the nearest hundredth, ties to even
Round2(x) ==
    LET r == x % 10
        base == x - r
    IN  IF r < 5 THEN base
        ELSE IF r > 5 THEN base + 10
        ELSE IF (base \div 10) % 2 = 0 THEN base ELSE base + 10

(***************************************************************************)
(* utils/merge.py                                                          *)
(***************************************************************************)
\* _to_list: a list is returned as is, a string is json.loads-ed, and
\* whatever fails to decode, or is no string, gives []
Merge_to_list(c) ==
    IF c.kind \in {"list", "json"} THEN c.items ELSE << >>

\* _merge_unique: sorted({*(a or []), *(b or [])})
MergeUniqueFirstOnly(a, b) == SortedSet(Range(IF a # << >> THEN a ELSE b))

MergeUnique(a, b) == SortedSet(Range(a) \cup Range(b))

\* _coerce_float: float(x), or the default 0.0 when float() raises
CoerceFloat(x) == IF x.num THEN x.v ELSE 0

\* the LLM object's field, or the .get default when the object is None / {}
LlmField(llm_obj, f, default) == IF llm_obj.present THEN llm_obj[f] ELSE default

\* line 43: the downgrade guard
GuardOnFinalConf(pre_required, llm_class, llm_conf, final_conf, guard) ==
    pre_required /\ llm_class = "NOT REQUIRED" /\ final_conf < guard

GuardIgnoresHint(pre_required, llm_class, llm_conf, final_conf, guard) ==
    llm_class = "NOT REQUIRED" /\ llm_conf < guard

DowngradeGuard(pre_required, llm_class, llm_conf, final_conf, guard) ==
    pre_required /\ llm_class = "NOT REQUIRED" /\ llm_conf < guard

\* a Python string used as a condition: None and "" are false
Truthy(str) == str # None /\ str # ""

\* line 40: round(min(llm_conf + pre_boost, 0.99), 2)
FinalConfUncapped(llm_conf, pre_boost) == Round2(llm_conf + pre_boost)

FinalConf(llm_conf, pre_boost) == Round2(Min(llm_conf + pre_boost, 990))

merge_prescan_llm(row, llm_obj, downgrade_guard) ==
    LET pre_required == row.prescan_required_hint
        pre_domains  == Merge_to_list(row.prescan_domains)
        pre_regions  == Merge_to_list(row.prescan_primary_regions)
        pre_laws     == Merge_to_list(row.prescan_law_hits)
        pre_boost    == row.prescan_confidence_boost
        llm_class    == LlmField(llm_obj, "classification", None)
        llm_conf     == CoerceFloat(LlmField(llm_obj, "confidence", Num(0)))
        llm_domains  == Merge_to_list(LlmField(llm_obj, "domains", Cell("list", << >>)))
        llm_regions  == Merge_to_list(LlmField(llm_obj, "primary_regions", Cell("list", << >>)))
        llm_regs     == Merge_to_list(LlmField(llm_obj, "related_regulations", Cell("list", << >>)))
        final_domains == MergeUnique(pre_domains, llm_domains)
        final_regions == MergeUnique(pre_regions, llm_regions)
        final_regs    == MergeUnique(pre_laws, llm_regs)
        final_conf    == FinalConf(llm_conf, pre_boost)
        class0 == IF Truthy(llm_class) THEN llm_class
                  ELSE IF final_domains = << >> THEN "NEEDS HUMAN REVIEW"
                  ELSE "REQUIRED"
        final_class == IF DowngradeGuard(pre_required, llm_class, llm_conf, final_conf, downgrade_guard)
                       THEN "REQUIRES REVIEW (rules hint REQUIRED)"
                       ELSE class0
    IN  [ llm_classification |-> llm_class,
          llm_confidence |-> llm_conf,
          llm_domains |-> llm_domains,
          llm_primary_regions |-> llm_regions,
          llm_related_regulations |-> llm_regs,
          final_domains |-> final_domains,
          final_primary_regions |-> final_regions,
          final_related_regulations |-> final_regs,
          final_confidence |-> final_conf,
          final_classification |-> final_class ]

\* Settings.confidence_downgrade_guard = 0.80
DefaultGuard == 800

\* the rows and LLM objects merge_prescan_llm is called with
MergeRows ==
    [ prescan_required_hint : BOOLEAN,
      prescan_domains : { Cell("json", << >>),
                          Cell("json", <<"Child Safety">>),
                          Cell("json", <<"Privacy & Data Protection", "Child Safety">>),
                          Cell("text", << >>) },
      prescan_primary_regions : { Cell("json", << >>), Cell("json", <<"EU">>) },
      prescan_law_hits : { Cell("json", << >>), Cell("json", <<"GDPR">>) },
      prescan_confidence_boost : {0, 150, 300} ]

NoLlmObj ==
    [ present |-> FALSE, classification |-> None, confidence |-> Num(0),
      domains |-> Cell("list", << >>), primary_regions |-> Cell("list", << >>),
      related_regulations |-> Cell("list", << >>) ]

LlmObjs ==
    {NoLlmObj} \cup
    [ present : {TRUE},
      classification : {None, "", "REQUIRED", "NOT REQUIRED", "NEEDS HUMAN REVIEW"},
      confidence : {Num(500), Num(795), Num(800), Num(875), Num(950), NotNum},
      domains : { Cell("list", << >>),
                  Cell("list", <<"Privacy & Data Protection">>),
                  Cell("list", <<"General Compliance", "Child Safety">>),
                  Cell("text", << >>) },
      primary_regions : { Cell("list", << >>), Cell("list", <<"US-CA", "EU">>) },
      related_regulations : { Cell("list", << >>), Cell("list", <<"DSA">>) } ]

MergeInit ==
    /\ fpc = "input"
    /\ farg \in [row : MergeRows, llm : LlmObjs, guard : {DefaultGuard, 900}]
    /\ fres = << >>
    /\ RLIdle
    /\ PlIdle
    /\ EnIdle

Merge ==
    /\ fpc = "input"
    /\ fres' = merge_prescan_llm(farg.row, farg.llm, farg.guard)
    /\ fpc' = "output"
    /\ UNCHANGED <<farg, notFn>>

MergeNext == Merge

SpecMerge == MergeInit /\ [][MergeNext]_vars

(***************************************************************************)
(* pipelines/router.py                                                     *)
(***************************************************************************)
\* RouterConfig defaults
MinConfidence == 750
MaxAgentsPerItem == 3
RequireReviewLabels == {"NEEDS HUMAN REVIEW", "REQUIRES REVIEW (rules hint REQUIRED)"}
HumanReviewAgent == "HumanReviewAgent"
DefaultAgent == "GeneralComplianceAgent"

DOMAIN_TO_AGENT ==
    [ d \in { "Child Safety", "Privacy & Data Protection",
              "Content Moderation / Illegal Content", "General Compliance" } |->
        CASE d = "Child Safety" -> "ChildSafetyAgent"
          [] d = "Privacy & Data Protection" -> "PrivacyAgent"
          [] d = "Content Moderation / Illegal Content" -> "ModerationAgent"
          [] d = "General Compliance" -> "GeneralComplianceAgent" ]

REGION_AGENT_OVERRIDES ==
    [ r \in {"US-CA", "US-FL", "EU", "SG"} |->
        CASE r = "US-CA" -> "CaliforniaPrivacyAgent"
          [] r = "US-FL" -> "FloridaMinorsAgent"
          [] r = "EU" -> "EUComplianceAgent"
          [] r = "SG" -> "SingaporePDPAAgent" ]

\* _to_list of the router: a list as is; a string starting with "[" is
\* json.loads-ed ([] when that fails); any other non-empty string is a
\* one-item list; everything else is []
Router_to_list(c) ==
    IF c.kind \in {"list", "json", "text"} THEN c.items ELSE << >>

\* seq[:n]
Take(q, n) == SubSeq(q, 1, Min(n, Len(q)))

\* [f[x] for x in q if x in f]
MapKnown(q, f) ==
    LET known == SelectSeq(q, LAMBDA x : x \in DOMAIN f)
    IN  [i \in 1..Len(known) |-> f[known[i]]]

\* _unique_keep_order
RECURSIVE UniqueFrom(_, _)
UniqueFrom(q, out) ==
    IF q = << >> THEN out
    ELSE UniqueFrom(Tail(q),
                    IF Head(q) \in Range(out) THEN out ELSE Append(out, Head(q)))

UniqueKeepOrder(q) == UniqueFrom(q, << >>)

\* [a for a in q if a not in skip]
Without(q, skip) == SelectSeq(q, LAMBDA a : a \notin skip)

\* q or [fallback]
OrElse(q, fallback) == IF q = << >> THEN <<fallback>> ELSE q

\* lines 82-95: the only_llm skip
OnlyLlmSkip(row, cfg) ==
    /\ cfg.only_llm
    /\ Len(Router_to_list(row.llm_domains)) = 0
    /\ row.prescan_confidence_boost # 0

\* lines 117-125: manual overrides
ManualNoCap(manual_agents, skip_agents, cfg) ==
    OrElse(Without(manual_agents, skip_agents), cfg.human_review_agent)

\* agents = [a for a in manual_agents if a not in skip_agents]
\* agents = agents[: cfg.max_agents_per_item] or [cfg.human_review_agent]
ManualRoute(manual_agents, skip_agents, cfg) ==
    OrElse(Take(Without(manual_agents, skip_agents), cfg.max_agents_per_item),
           cfg.human_review_agent)

\* lines 130-136 and 170-174: domain mapping, region overrides appended
MappedRegionsFirst(domains, regions) ==
    MapKnown(regions, REGION_AGENT_OVERRIDES) \o MapKnown(domains, DOMAIN_TO_AGENT)

MappedAgents(domains, regions) ==
    MapKnown(domains, DOMAIN_TO_AGENT) \o MapKnown(regions, REGION_AGENT_OVERRIDES)

\* lines 147-150 and 190-193: skip, dedupe, cap, default
SkipDedupeNoCap(mapped, skip_agents, cfg) ==
    OrElse(UniqueKeepOrder(Without(mapped, skip_agents)), cfg.default_agent)

SkipDedupeCap(mapped, skip_agents, cfg) ==
    OrElse(Take(UniqueKeepOrder(Without(mapped, skip_agents)), cfg.max_agents_per_item),
           cfg.default_agent)

Route(agents, reason) == [agents |-> agents, reason |-> reason]

route_row(row, cfg) ==
    LET classification == IF row.final_classification = None THEN ""
                          ELSE row.final_classification
        confidence == row.final_confidence
        domains == Router_to_list(row.final_domains)
        regions == Router_to_list(row.final_primary_regions)
        prescan_required == row.prescan_required_hint
        manual_agents == Router_to_list(row.manual_agents)
        skip_agents == Range(Router_to_list(row.skip_agents))
        mapped == MappedAgents(domains, regions)
    IN  IF OnlyLlmSkip(row, cfg)
          THEN Route(<< >>, "skip: no llm_domains and prescan_boost>0")
        ELSE IF manual_agents # << >>
          THEN Route(ManualRoute(manual_agents, skip_agents, cfg), "manual override")
        ELSE IF cfg.category_only
          THEN IF mapped = << >>
                 THEN Route(<<cfg.default_agent>>, "no domain; default agent")
                 ELSE Route(SkipDedupeCap(mapped, skip_agents, cfg), "category-only routing")
        ELSE IF classification \in cfg.require_review_labels
          THEN Route(<<cfg.human_review_agent>>, "classification")
        ELSE IF confidence < cfg.min_confidence
          THEN Route(<<cfg.human_review_agent>>, "low confidence")
        ELSE IF mapped = << >> /\ prescan_required
          THEN Route(<<cfg.human_review_agent>>, "prescan hinted requirement but no domain")
        ELSE IF mapped = << >>
          THEN Route(<<cfg.default_agent>>, "no domain/region override")
        ELSE Route(SkipDedupeCap(mapped, skip_agents, cfg), "domain/region routing")

NoCell == Cell("none", << >>)

\* the enriched rows route_row is called with
RouteRows ==
    [ llm_domains : { NoCell, Cell("json", <<"General Compliance">>) },
      prescan_confidence_boost : {0, 200},
      prescan_required_hint : BOOLEAN,
      final_classification : {None, "REQUIRED", "NEEDS HUMAN REVIEW"},
      final_confidence : {500, 900},
      final_domains : { Cell("json", << >>),
                        Cell("json", <<"Child Safety">>),
                        Cell("json", <<"Biometrics">>),
                        Cell("json", <<"Child Safety", "Privacy & Data Protection">>),
                        Cell("json", <<"Child Safety", "Content Moderation / Illegal Content",
                                       "General Compliance", "Privacy & Data Protection">>) },
      final_primary_regions : { Cell("json", << >>), Cell("json", <<"EU">>),
                                Cell("json", <<"EU", "US-CA">>),
                                Cell("json", <<"EU", "US-CA", "EU">>) },
      manual_agents : { NoCell,
                        Cell("text", <<"PrivacyAgent">>),
                        Cell("json", <<"PrivacyAgent">>),
                        Cell("json", <<"ChildSafetyAgent", "PrivacyAgent">>),
                        Cell("json", <<"PrivacyAgent", "PrivacyAgent">>),
                        Cell("json", <<"ChildSafetyAgent", "PrivacyAgent", "ModerationAgent",
                                       "GeneralComplianceAgent">>) },
      skip_agents : { NoCell,
                      Cell("json", <<"ChildSafetyAgent">>),
                      Cell("json", <<"PrivacyAgent">>),
                      Cell("text", <<"GeneralComplianceAgent">>) } ]

RouterConfigs ==
    [ category_only : BOOLEAN,
      only_llm : BOOLEAN,
      min_confidence : {MinConfidence},
      max_agents_per_item : {2, MaxAgentsPerItem},
      require_review_labels : {RequireReviewLabels},
      human_review_agent : {HumanReviewAgent},
      default_agent : {DefaultAgent} ]

RouteInit ==
    /\ fpc = "input"
    /\ farg \in [row : RouteRows, cfg : RouterConfigs]
    /\ fres = << >>
    /\ RLIdle
    /\ PlIdle
    /\ EnIdle

RouteRow ==
    /\ fpc = "input"
    /\ fres' = route_row(farg.row, farg.cfg)
    /\ fpc' = "output"
    /\ UNCHANGED <<farg, notFn>>

RouteNext == RouteRow

SpecRoute == RouteInit /\ [][RouteNext]_vars

(***************************************************************************)
(* processors/rules_config.py, processors/prescan.py                       *)
(*                                                                         *)
(* A feature text is the set of cues its expanded name and description     *)
(* contain; each regular expression is the set of cues it matches.         *)
(***************************************************************************)
\* law -> the cues its patterns match
LAW_PATTERNS ==
    [ law \in {"GDPR", "DSA", "SB976"} |-> {law} ]

\* iteration order of LAW_PATTERNS
LawOrder == <<"GDPR", "DSA", "SB976">>

LAW_TO_REGIONS ==
    [ law \in {"GDPR", "DSA", "SB976"} |->
        CASE law = "GDPR" -> <<"EU">>
          [] law = "DSA" -> <<"EU">>
          [] law = "SB976" -> <<"US-CA">> ]

LAW_TO_DOMAINS ==
    [ law \in {"DSA", "SB976"} |->
        CASE law = "DSA" -> << "Content Moderation / Illegal Content",
                               "Privacy & Data Protection" >>
          [] law = "SB976" -> <<"Child Safety">> ]

\* domain -> cue -> the number of matches the domain's patterns find for it
\* ("age-sensitive" is matched by two Child Safety patterns)
DOMAIN_PATTERNS ==
    [ d \in { "Child Safety", "Privacy & Data Protection",
              "Content Moderation / Illegal Content" } |->
        CASE d = "Child Safety" ->
                [ c \in {"minor", "age_sensitive"} |-> IF c = "minor" THEN 1 ELSE 2 ]
          [] d = "Privacy & Data Protection" ->
                [ c \in {"consent", "retention"} |-> 1 ]
          [] d = "Content Moderation / Illegal Content" ->
                [ c \in {"moderation"} |-> 1 ] ]

\* iteration order of DOMAIN_PATTERNS
DomainOrder == << "Child Safety", "Privacy & Data Protection",
                  "Content Moderation / Illegal Content" >>

COMPLIANCE_LANGUAGE == {"comply"}

RECURSIVE SumOver(_, _)
SumOver(S, f) ==
    IF S = {} THEN 0
    ELSE LET x == CHOOSE y \in S : TRUE
         IN  f[x] + SumOver(S \ {x}, f)

\* _collect_law_hits: the laws with a match, and their regions
collect_law_hits(text) == {law \in DOMAIN LAW_PATTERNS : LAW_PATTERNS[law] \cap text # {}}

LawRegions(laws) == UNION {Range(LAW_TO_REGIONS[law]) : law \in laws}

\* _collect_domain_hits: the match count of one domain
collect_domain_hits(text, d) ==
    SumOver(text \cap DOMAIN DOMAIN_PATTERNS[d], DOMAIN_PATTERNS[d])

has_compliance_language(text) == COMPLIANCE_LANGUAGE \cap text # {}

\* lines 66-69: the domains the law hits add, in iteration order
RECURSIVE LawDomains(_, _)
LawDomains(order, laws) ==
    IF order = << >> THEN << >>
    ELSE (IF Head(order) \in laws /\ Head(order) \in DOMAIN LAW_TO_DOMAINS
            THEN LAW_TO_DOMAINS[Head(order)] ELSE << >>)
         \o LawDomains(Tail(order), laws)

\* sorted(keys, key=lambda d: -count[d]): stable, largest count first
RECURSIVE SortByCountFrom(_, _, _)
SortByCountFrom(q, count, out) ==
    IF q = << >> THEN out
    ELSE LET x == Head(q)
         IN  SortByCountFrom(Tail(q), count,
                 SelectSeq(out, LAMBDA y : count[y] >= count[x]) \o <<x>>
                 \o SelectSeq(out, LAMBDA y : count[y] < count[x]))

SortByCountDesc(q, count) == SortByCountFrom(q, count, << >>)

\* lines 86-93: the boost is additive and capped
BoostUncapped(any_law, compliance, minor_age) ==
    (IF any_law THEN 200 ELSE 0)
    + (IF compliance THEN 50 ELSE 0)
    + (IF minor_age THEN 100 ELSE 0)

ConfidenceBoost(any_law, compliance, minor_age) ==
    Min((IF any_law THEN 200 ELSE 0)
        + (IF compliance THEN 50 ELSE 0)
        + (IF minor_age THEN 100 ELSE 0), 300)

prescan(text) ==
    LET law_counts == collect_law_hits(text)
        region_hits == LawRegions(law_counts)
        compliance == has_compliance_language(text)
        minor == "minor" \in text
        age_ctrl == "age_sensitive" \in text
        upgraded == LawDomains(LawOrder, law_counts)
        keys == UniqueKeepOrder(
                    SelectSeq(DomainOrder, LAMBDA d : collect_domain_hits(text, d) > 0)
                    \o upgraded
                    \o (IF minor /\ age_ctrl THEN <<"Child Safety">> ELSE << >>))
        domain_counts ==
            [ d \in Range(keys) |->
                LET hits == IF d \in DOMAIN DOMAIN_PATTERNS
                              THEN collect_domain_hits(text, d) ELSE 0
                    law == IF d \in Range(upgraded) THEN Max(hits, 1) ELSE hits
                IN  IF d = "Child Safety" /\ minor /\ age_ctrl THEN Max(law, 2) ELSE law ]
    IN  [ required_hint |-> law_counts # {} \/ compliance \/ (minor /\ age_ctrl),
          domains |-> SortByCountDesc(keys, domain_counts),
          primary_regions |-> SortedSet(region_hits),
          law_hits |-> SortedSet(law_counts),
          confidence_boost |-> ConfidenceBoost(law_counts # {}, compliance, minor /\ age_ctrl) ]

(***************************************************************************)
(* pipelines/prescan_pipeline.py                                           *)
(***************************************************************************)
\* one row of prescan_results.csv: lists are written as JSON strings
PrescanRecord(text) ==
    LET ps == prescan(text)
    IN  [ feature |-> text,
          prescan_required_hint |-> ps.required_hint,
          prescan_domains |-> Cell("json", ps.domains),
          prescan_primary_regions |-> Cell("json", ps.primary_regions),
          prescan_law_hits |-> Cell("json", ps.law_hits),
          prescan_confidence_boost |-> ps.confidence_boost ]

process_csv_with_prescan(input) == [i \in 1..Len(input) |-> PrescanRecord(input[i])]

\* the rows exploded into by_domain/domain__NONE.csv
NoneRows(rows) == {i \in 1..Len(rows) : rows[i].prescan_domains.items = << >>}

(***************************************************************************)
(* utils/merge.py: merge_categories_only                                   *)
(***************************************************************************)
Cat_to_list(c) ==
    IF c.kind \in {"list", "json"} THEN c.items ELSE << >>

CatMergeUnique(a, b) == SortedSet(Range(a) \cup Range(b))

\* x or None, for a list x
OrNone(q) == IF q = << >> THEN NoCell ELSE Cell("list", q)

merge_categories_only(row, llm_obj) ==
    LET pre_domains == Cat_to_list(row.prescan_domains)
        pre_regions == Cat_to_list(row.prescan_primary_regions)
        pre_laws == Cat_to_list(row.prescan_law_hits)
        llm_domains == Cat_to_list(llm_obj.domains)
        llm_regions == Cat_to_list(llm_obj.primary_regions)
        llm_regs == Cat_to_list(llm_obj.related_regulations)
    IN  [ llm_domains |-> OrNone(llm_domains),
          final_domains |-> Cell("list", CatMergeUnique(pre_domains, llm_domains)),
          final_primary_regions |-> Cell("list", CatMergeUnique(pre_regions, llm_regions)),
          final_related_regulations |-> Cell("list", CatMergeUnique(pre_laws, llm_regs)) ]

(***************************************************************************)
(* pipelines/llm_enrichment_none.py                                        *)
(***************************************************************************)
Enrich_to_list(c) ==
    IF c.kind \in {"list", "json"} THEN c.items ELSE << >>

\* what GeminiClient.generate returns for the master prompt: text that is no
\* JSON array ("garbage"), an array without the rows asked for ("omitted"),
\* or an array with one object per row asked for ("objects"): the object of
\* the first row asked for lists `first`, the others list `rest`
LlmObject(domains) ==
    [ domains |-> Cell("list", domains),
      primary_regions |-> Cell("list", << >>),
      related_regulations |-> Cell("list", << >>) ]

EnrichReply(kind, first, rest) == [kind |-> kind, first |-> first, rest |-> rest]

EnrichReplies ==
    { EnrichReply("garbage", << >>, << >>),
      EnrichReply("omitted", << >>, << >>),
      EnrichReply("objects", << >>, << >>),
      EnrichReply("objects", <<"General Compliance">>, <<"General Compliance">>),
      EnrichReply("objects",
                  << "Privacy & Data Protection", "Child Safety", "General Compliance",
                     "Content Moderation / Illegal Content" >>,
                  <<"Privacy & Data Protection">>) }

\* lines 107-122: the merge of one row
MergedCategories(row, in_by_index, llm_obj) ==
    IF in_by_index THEN merge_categories_only(row, llm_obj)
    ELSE [ llm_domains |-> NoCell,
           final_domains |-> Cell("list", Enrich_to_list(row.prescan_domains)),
           final_primary_regions |-> Cell("list", Enrich_to_list(row.prescan_primary_regions)),
           final_related_regulations |-> Cell("list", Enrich_to_list(row.prescan_law_hits)) ]

\* line 134: a list is written as its JSON string, None as "[]"
WrittenList(c) == IF c.kind = "list" THEN Cell("json", c.items) ELSE Cell("json", << >>)

EnrichedRecord(row, in_by_index, llm_obj) ==
    LET merged == MergedCategories(row, in_by_index, llm_obj)
    IN  [ feature |-> row.feature,
          prescan_required_hint |-> row.prescan_required_hint,
          prescan_domains |-> row.prescan_domains,
          prescan_primary_regions |-> row.prescan_primary_regions,
          prescan_law_hits |-> row.prescan_law_hits,
          prescan_confidence_boost |-> row.prescan_confidence_boost,
          llm_domains |-> WrittenList(merged.llm_domains),
          final_domains |-> WrittenList(merged.final_domains),
          final_primary_regions |-> WrittenList(merged.final_primary_regions),
          final_related_regulations |-> WrittenList(merged.final_related_regulations) ]

\* the rows the LLM's array has an object for
ByIndex(rows, reply) == IF reply.kind = "objects" THEN NoneRows(rows) ELSE {}

\* by_index[idx]
LlmObjectFor(rows, reply, i) ==
    IF \A j \in NoneRows(rows) : i <= j THEN LlmObject(reply.first)
    ELSE LlmObject(reply.rest)

\* enrich_none_only raises when domain__NONE.csv was not written (no row
\* without a prescan domain) and when the LLM's text is no JSON array
EnrichRaises(rows, reply) == NoneRows(rows) = {} \/ reply.kind = "garbage"

enrich_none_only(rows, reply) ==
    [ i \in 1..Len(rows) |->
        EnrichedRecord(rows[i], i \in ByIndex(rows, reply), LlmObjectFor(rows, reply, i)) ]

(***************************************************************************)
(* pipelines/router.py: route_dataframe, as run by router_cli.py           *)
(***************************************************************************)
\* row.get(col) for the columns llm_enriched.csv does not have
RouterRow(row) ==
    [ llm_domains |-> row.llm_domains,
      prescan_confidence_boost |-> row.prescan_confidence_boost,
      prescan_required_hint |-> row.prescan_required_hint,
      final_classification |-> None,
      final_confidence |-> 0,
      final_domains |-> row.final_domains,
      final_primary_regions |-> row.final_primary_regions,
      manual_agents |-> NoCell,
      skip_agents |-> NoCell ]

\* router_cli.py without --legacy and --max-agents
CliRouterConfig(only_llm) ==
    [ category_only |-> TRUE,
      only_llm |-> only_llm,
      min_confidence |-> MinConfidence,
      max_agents_per_item |-> MaxAgentsPerItem,
      require_review_labels |-> RequireReviewLabels,
      human_review_agent |-> HumanReviewAgent,
      default_agent |-> DefaultAgent ]

\* one row of llm_routed.csv: the list is written as its Python repr
RoutedRecord(row, rcfg) ==
    LET out == route_row(RouterRow(row), rcfg)
    IN  [ feature |-> row.feature,
          llm_domains |-> row.llm_domains,
          final_domains |-> row.final_domains,
          final_primary_regions |-> row.final_primary_regions,
          route_agents |-> Cell("repr", out.agents),
          route_reason |-> out.reason ]

route_dataframe(rows, rcfg) == [i \in 1..Len(rows) |-> RoutedRecord(rows[i], rcfg)]

(***************************************************************************)
(* agents/*.py                                                             *)
(***************************************************************************)
AGENT_REGISTRY ==
    {"ChildSafetyAgent", "PrivacyAgent", "ModerationAgent", "GeneralComplianceAgent"}

\* the agent names in the order Python compares them
AgentOrder ==
    <<"ChildSafetyAgent", "GeneralComplianceAgent", "ModerationAgent", "PrivacyAgent">>

(* The scores are Python floats.  Every weight and threshold is a multiple *)
(* of 0.05, so a double x met here is held as [d, e] with                  *)
(* x = d/20 + e/(5 * 2^60): d counts twentieths and e is what the binary   *)
(* representation adds to or takes from the decimal value.                 *)
RECURSIVE Pow2(_)
Pow2(n) == IF n = 0 THEN 1 ELSE 2 * Pow2(n - 1)

\* the k with x in [2^-k, 2^(1-k)), for 0.05 <= x < 2
Binade(d, e) ==
    IF d > 20 \/ (d = 20 /\ e >= 0) THEN 0
    ELSE IF d > 10 \/ (d = 10 /\ e >= 0) THEN 1
    ELSE IF d > 5 \/ (d = 5 /\ e >= 0) THEN 2
    ELSE IF d >= 3 THEN 3
    ELSE IF d = 2 THEN 4
    ELSE 5

\* (d * 2^58) modulo 5 * 2^j; the powers of 2 repeat modulo 5 with period 4
Grid(d, j) == Pow2(j) * ((d * Pow2((58 - j) % 4)) % 5)

\* round to nearest, ties to even, with the 53-bit significand of a double:
\* in binade k the doubles are the multiples of 2^-(52+k), 5 * 2^(8-k) units
RoundToDouble(d, e) ==
    IF d = 0 /\ e = 0 THEN [d |-> 0, e |-> 0]
    ELSE LET j == 8 - Binade(d, e)
             q == 5 * Pow2(j)
             r == (Grid(d, j) + e) % q
             r2 == (Grid(d, j + 1) + e) % (2 * q)
             down == 2 * r < q \/ (2 * r = q /\ r2 = r)
         IN  [d |-> d, e |-> IF down THEN e - r ELSE e + q - r]

\* the float literal for d/20
Dbl(d) == RoundToDouble(d, 0)

FloatAdd(x, y) == RoundToDouble(x.d + y.d, x.e + y.e)

FloatGE(x, y) == x.d > y.d \/ (x.d = y.d /\ x.e >= y.e)

\* round(x, 2), in thousandths
FloatRound2(x) == 50 * x.d

\* s = 0.0, then "if <match>: s += w" for each entry <<match, 20 * w>>
RECURSIVE Accumulate(_, _)
Accumulate(s, hits) ==
    IF hits = << >> THEN s
    ELSE Accumulate(IF hits[1][1] THEN FloatAdd(s, Dbl(hits[1][2])) ELSE s, Tail(hits))

\* min(s, 1.0)
CapAtOne(s) == IF FloatGE(s, Dbl(20)) THEN Dbl(20) ELSE s

\* ChildSafetyAgent.check, lines 32-38
ChildSafetyScore(t) ==
    LET child == "minor" \in t
        age == "age_sensitive" \in t
    IN  CapAtOne(Accumulate(Dbl(0),
            << <<child, 6>>, <<age, 6>>, <<child /\ age, 4>>,
               <<child /\ "moderation" \in t, 5>>, <<child /\ "policy" \in t, 2>> >>))

\* PrivacyAgent._rule_score; "retention" stands for "data retention"
PrivacyScore(t) ==
    CapAtOne(Accumulate(Dbl(0),
        << <<"consent" \in t, 5>>, <<"opt_in" \in t, 4>>, <<"opt_out" \in t, 4>>,
           <<"default_private" \in t, 3>>, <<"visibility_settings" \in t, 3>>,
           <<"personalization_toggle" \in t, 2>>, <<"retention" \in t, 3>>,
           <<"guest_mode" \in t, 2>>, <<"privacy" \in t, 1>>,
           <<"consent" \in t /\ "retention" \in t, 3>> >>))

\* ModerationAgent._rule_score; the phrase "transparency report" also holds
\* the word "report", and "moderation" is one of the moderation words of the
\* last co-occurrence
ModerationScore(t) ==
    CapAtOne(Accumulate(Dbl(0),
        << <<"moderation" \in t, 5>>, <<"takedown" \in t, 4>>,
           <<t \cap {"report", "transparency_report"} # {}, 3>>,
           <<"appeal_flow" \in t, 3>>, <<"transparency_report" \in t, 3>>,
           <<"restricted_mode" \in t, 2>>, <<"NSP" \in t, 2>>, <<"audit" \in t, 1>>,
           <<"notice" \in t /\ "appeal_flow" \in t, 3>>,
           <<"transparency_report" \in t, 2>>,
           <<"minor" \in t /\ "moderation" \in t, 4>> >>))

\* GeneralComplianceAgent._rule_score
GeneralScore(t) ==
    CapAtOne(Accumulate(Dbl(0),
        << <<"comply" \in t, 10>>, <<"region" \in t, 5>>, <<"policy" \in t, 3>> >>))

RuleScore(agent, t) ==
    CASE agent = "ChildSafetyAgent" -> ChildSafetyScore(t)
      [] agent = "PrivacyAgent" -> PrivacyScore(t)
      [] agent = "ModerationAgent" -> ModerationScore(t)
      [] agent = "GeneralComplianceAgent" -> GeneralScore(t)

IssueThreshold == 650
ReviewThreshold == 350

\* "if s >= 0.65 ... elif s >= 0.35 ...", the same in the four agents
RuleStatus(s) ==
    IF FloatGE(s, Dbl(IssueThreshold \div 50)) THEN "ISSUE"
    ELSE IF FloatGE(s, Dbl(ReviewThreshold \div 50)) THEN "REVIEW"
    ELSE "OK"

LlmScoreWithoutFloor(status, s) ==
    CASE status = "ISSUE" -> Dbl(18)
      [] status = "REVIEW" -> Dbl(12)
      [] status = "OK" -> s

\* s = {"ISSUE": 0.9, "REVIEW": 0.6, "OK": max(s, 0.5)}[status]
LlmScore(status, s) ==
    CASE status = "ISSUE" -> Dbl(18)
      [] status = "REVIEW" -> Dbl(12)
      [] status = "OK" -> IF FloatGE(s, Dbl(10)) THEN s ELSE Dbl(10)

\* BaseAgent.llm_json: the parsed object's status, "bad" when no usable object
\* came back after the retries, "raise" when llm.generate raised
LlmReplies == {"ISSUE", "REVIEW", "OK", "bad"}

AgentVerdict(agent, status, score) == [agent |-> agent, status |-> status, score |-> score]

\* <Agent>.check; reply is the status of the object llm_json returned, "bad"
\* when it returned None and "off" when check did not call it
check(agent, t, reply) ==
    LET s == RuleScore(agent, t)
        status == RuleStatus(s)
    IN  IF reply \in {"ISSUE", "REVIEW", "OK"}
          THEN AgentVerdict(agent, reply, FloatRound2(LlmScore(reply, s)))
          ELSE AgentVerdict(agent, status, FloatRound2(s))

(***************************************************************************)
(* pipelines/agent_runner.py: _run_agent_task and main                     *)
(***************************************************************************)
\* _to_list of the runner: JSON, then ast.literal_eval, for "[...]" strings
Runner_to_list(c) ==
    IF c.kind \in {"list", "json", "repr", "text"} THEN c.items ELSE << >>

\* lines 104-110
UseLlm(row, llm_flag) ==
    \/ llm_flag = "all"
    \/ llm_flag = "categorized" /\ Runner_to_list(row.llm_domains) # << >>

\* what the LLM does for the calls of one task in this run
LlmReplyFor(idx, row, a) ==
    IF ~UseLlm(row, a.llm_flag) THEN "off"
    ELSE IF a.llm_fault = idx THEN "raise"
    ELSE a.llm_reply

\* _run_agent_task: None for an unregistered agent, an exception when the
\* LLM call raises inside check(), else the result row
run_agent_task(idx, row, agent_name, a) ==
    IF agent_name \notin AGENT_REGISTRY THEN [kind |-> "none", rec |-> << >>]
    ELSE IF LlmReplyFor(idx, row, a) = "raise" THEN [kind |-> "raise", rec |-> << >>]
    ELSE LET verdict == check(agent_name, row.feature, LlmReplyFor(idx, row, a))
         IN  [ kind |-> "row",
               rec |-> [ row_index |-> idx,
                         agent |-> verdict.agent,
                         status |-> verdict.status,
                         score |-> verdict.score ] ]

\* lines 154-162: one task per (row, agent name), rows in file order
RECURSIVE TasksFrom(_, _)
TasksFrom(rows, i) ==
    IF i > Len(rows) THEN << >>
    ELSE LET names == Runner_to_list(rows[i].route_agents)
         IN  [k \in 1..Len(names) |-> [idx |-> i - 1, agent |-> names[k]]]
             \o TasksFrom(rows, i + 1)

\* (r["row_index"], r["agent"]) <= the same key of another row
AgentRank(a) == CHOOSE i \in 1..Len(AgentOrder) : AgentOrder[i] = a

KeyLE(x, y) ==
    \/ x.row_index < y.row_index
    \/ x.row_index = y.row_index /\ AgentRank(x.agent) <= AgentRank(y.agent)

\* rows_out.sort(key=...): stable
RECURSIVE SortRowsFrom(_, _)
SortRowsFrom(q, out) ==
    IF q = << >> THEN out
    ELSE LET x == Head(q)
         IN  SortRowsFrom(Tail(q),
                 SelectSeq(out, LAMBDA y : KeyLE(y, x)) \o <<x>>
                 \o SelectSeq(out, LAMBDA y : ~KeyLE(y, x)))

CollectionOrder(q) == q

SortRows(q) == SortRowsFrom(q, << >>)

(***************************************************************************)
(* pipelines/finalize_results.py                                           *)
(***************************************************************************)
Finalize_to_list(c) ==
    IF c.kind \in {"list", "json", "repr", "text"} THEN c.items ELSE << >>

\* grouped.get(int(idx), <empty frame>)
AgentRowsOf(ag, idx) == SelectSeq(ag, LAMBDA r : r.row_index = idx)

HasStatus(agent_rows, label) == \E i \in 1..Len(agent_rows) : agent_rows[i].status = label

FirstStatusOnly(agent_rows) ==
    IF agent_rows # << >> /\ agent_rows[1].status = "ISSUE" THEN "REQUIRED"
    ELSE IF agent_rows # << >> /\ agent_rows[1].status = "REVIEW" THEN "NEEDS HUMAN REVIEW"
    ELSE "NOT REQUIRED"

pick_final_class(agent_rows) ==
    IF HasStatus(agent_rows, "ISSUE") THEN "REQUIRED"
    ELSE IF HasStatus(agent_rows, "REVIEW") THEN "NEEDS HUMAN REVIEW"
    ELSE "NOT REQUIRED"

\* a float as the fraction num / den of thousandths
Frac(num, den) == [num |-> num, den |-> den]

ScoresOf(agent_rows, label) ==
    LET sub == SelectSeq(agent_rows, LAMBDA r : r.status = label)
    IN  [i \in 1..Len(sub) |-> sub[i].score]

RECURSIVE SeqMax(_)
SeqMax(q) == IF Len(q) = 1 THEN q[1] ELSE Max(q[1], SeqMax(Tail(q)))

RECURSIVE SeqSum(_)
SeqSum(q) == IF q = << >> THEN 0 ELSE q[1] + SeqSum(Tail(q))

ReviewByMaximum(agent_rows, final_class) ==
    IF agent_rows = << >> THEN Frac(500, 1)
    ELSE IF final_class = "NOT REQUIRED" THEN Frac(900, 1)
    ELSE LET scores == ScoresOf(agent_rows,
                                IF final_class = "REQUIRED" THEN "ISSUE" ELSE "REVIEW")
         IN  IF scores = << >> THEN Frac(750, 1) ELSE Frac(SeqMax(scores), 1)

compute_confidence(agent_rows, final_class) ==
    IF agent_rows = << >> THEN Frac(500, 1)
    ELSE IF final_class = "REQUIRED"
      THEN LET scores == ScoresOf(agent_rows, "ISSUE")
           IN  IF scores = << >> THEN Frac(750, 1) ELSE Frac(SeqMax(scores), 1)
    ELSE IF final_class = "NEEDS HUMAN REVIEW"
      THEN LET scores == ScoresOf(agent_rows, "REVIEW")
           IN  IF scores = << >> THEN Frac(600, 1) ELSE Frac(SeqSum(scores), Len(scores))
    ELSE Frac(900, 1)

\* round(x, 2) of a fraction of thousandths: the nearest hundredth, ties to even
Round2Frac(x) ==
    LET twice == 2 * x.num + 10 * x.den
        q == twice \div (20 * x.den)
        tie == twice % (20 * x.den) = 0
    IN  10 * (IF tie /\ q % 2 = 1 THEN q - 1 ELSE q)

\* lines 272-273
PrescanRequired(row) ==
    row.prescan_required_hint \/ Len(Finalize_to_list(row.prescan_law_hits)) > 0

FallbackBase == 700
FallbackCap == 950

FallbackUncapped(boost) == Round2(FallbackBase + boost)

\* line 280: min(0.95, round(0.70 + prescan_boost, 2))
FallbackConfidence(boost) == Min(FallbackCap, Round2(FallbackBase + boost))

\* lines 277-286: the classification, confidence and reasoning of one row
Decide(row, agents_df) ==
    IF agents_df = << >> /\ PrescanRequired(row)
      THEN [ final_class |-> "REQUIRED",
             confidence |-> FallbackConfidence(row.prescan_confidence_boost),
             reasoning |-> "Prescan hard hits." ]
      ELSE LET final_class == pick_final_class(agents_df)
           IN  [ final_class |-> final_class,
                 confidence |-> Round2Frac(compute_confidence(agents_df, final_class)),
                 reasoning |-> IF agents_df = << >>
                                 THEN "No agent decisions available."
                                 ELSE "agent decisions" ]

\* lines 261-297: the record of the enriched row with index idx
FinalRecord(idx, row, ag) ==
    LET d == Decide(row, AgentRowsOf(ag, idx))
    IN  [ feature |-> row.feature,
          domain |-> Finalize_to_list(row.final_domains),
          primary_region |-> Finalize_to_list(row.final_primary_regions),
          regulation_hits |-> Finalize_to_list(row.final_related_regulations),
          clear_reasoning |-> d.reasoning,
          confidence |-> d.confidence,
          final_classification |-> d.final_class ]

\* pd.read_csv of an agent_results.csv written from no rows has no row_index
\* column (or no columns at all): finalize raises
FinalizeRaises(ag) == ag = << >>

finalize(enr, ag) == [i \in 1..Len(enr) |-> FinalRecord(i - 1, enr[i], ag)]

(***************************************************************************)
(* pipelines/start_pipeline.py: prescan -> enrich -> route -> agents ->     *)
(* finalize, each stage a subprocess; a stage that exits non-zero stops    *)
(* the run.                                                                *)
(***************************************************************************)
NumRows == 2
MaxWorkers == 2

RowIds == 0..(NumRows - 1)

\* feature texts, as cue sets:
\*   "ASL for EU" / "Age-sensitive logic implementation for European Union
\*       GDPR compliance"
\*   "Bug fix" / "Fixed memory leak in video processing pipeline"
\*   an age gate for minors, to comply with SB976
\*   consent and data-retention settings
\*   a GDPR data export
AslForEu == {"GDPR", "age_sensitive", "region"}
BugFix == {"region"}
Features ==
    { AslForEu,
      BugFix,
      {"SB976", "minor", "age_sensitive", "comply"},
      {"consent", "retention"},
      {"GDPR"} }

\* --only-llm; --llm-all / --llm-for-llm-categorized; and what the agents'
\* LLM answers in this run: one status for every call, and the row (if any)
\* whose calls raise
RunArgs ==
    { a \in [ only_llm : BOOLEAN,
              llm_flag : {"none", "categorized", "all"},
              llm_reply : LlmReplies,
              llm_fault : {-1} \cup RowIds ] :
        /\ a.llm_flag = "none" => a.llm_reply = "bad" /\ a.llm_fault = -1
        /\ a.llm_fault # -1 => a.llm_reply = "OK" /\ a.llm_flag = "all" }

Init ==
    /\ stage = "input"
    /\ args \in RunArgs
    /\ features \in [1..NumRows -> Features]
    /\ prescan_results = << >> /\ enriched = << >> /\ routed = << >>
    /\ tasks = << >> /\ finished = {} /\ rows_out = << >> /\ aborted = FALSE
    /\ agent_results = << >> /\ final_results = << >>
    /\ RLIdle
    /\ FnIdle
    /\ EnIdle

Prescan ==
    /\ stage = "input"
    /\ prescan_results' = process_csv_with_prescan(features)
    /\ stage' = "prescanned"
    /\ UNCHANGED <<args, features, enriched, routed, tasks, finished, rows_out,
                   aborted, agent_results, final_results, notPl>>

Enrich ==
    /\ stage = "prescanned"
    /\ \E reply \in EnrichReplies :
          IF EnrichRaises(prescan_results, reply)
            THEN stage' = "failed" /\ UNCHANGED enriched
            ELSE /\ enriched' = enrich_none_only(prescan_results, reply)
                 /\ stage' = "enriched"
    /\ UNCHANGED <<args, features, prescan_results, routed, tasks, finished,
                   rows_out, aborted, agent_results, final_results, notPl>>

RouteStage ==
    /\ stage = "enriched"
    /\ routed' = route_dataframe(enriched, CliRouterConfig(args.only_llm))
    /\ stage' = "routed"
    /\ UNCHANGED <<args, features, prescan_results, enriched, tasks, finished,
                   rows_out, aborted, agent_results, final_results, notPl>>

\* agent_runner.main, lines 153-162
Submit ==
    /\ stage = "routed"
    /\ tasks' = TasksFrom(routed, 1)
    /\ finished' = {}
    /\ rows_out' = << >>
    /\ aborted' = FALSE
    /\ stage' = "agents"
    /\ UNCHANGED <<args, features, prescan_results, enriched, routed,
                   agent_results, final_results, notPl>>

\* the futures a worker thread is running: the pool starts them in
\* submission order, max_workers at a time
Running ==
    LET open == SelectSeq([k \in 1..Len(tasks) |-> k], LAMBDA k : k \notin finished)
    IN  Range(Take(open, MaxWorkers))

TaskOutcome(k) ==
    run_agent_task(tasks[k].idx, routed[tasks[k].idx + 1], tasks[k].agent, args)

\* a task ends and as_completed hands its future to main (lines 164-167):
\* fut.result() re-raises the task's exception in main
TaskDone(k) ==
    /\ stage = "agents"
    /\ k \in Running
    /\ finished' = finished \cup {k}
    /\ LET out == TaskOutcome(k)
       IN  IF aborted THEN UNCHANGED <<rows_out, aborted>>
           ELSE IF out.kind = "raise" THEN aborted' = TRUE /\ UNCHANGED rows_out
           ELSE IF out.kind = "row"
             THEN rows_out' = Append(rows_out, out.rec) /\ UNCHANGED aborted
           ELSE UNCHANGED <<rows_out, aborted>>
    /\ UNCHANGED <<stage, args, features, prescan_results, enriched, routed, tasks,
                   agent_results, final_results, notPl>>

AllDone == finished = 1..Len(tasks)

\* lines 169-174
WriteResults ==
    /\ stage = "agents"
    /\ AllDone /\ ~aborted
    /\ agent_results' = SortRows(rows_out)
    /\ stage' = "agents_written"
    /\ UNCHANGED <<args, features, prescan_results, enriched, routed, tasks, finished,
                   rows_out, aborted, final_results, notPl>>

\* the exception leaves the with-block once the pool has run every task;
\* main ends without writing
RunnerRaises ==
    /\ stage = "agents"
    /\ AllDone /\ aborted
    /\ stage' = "failed"
    /\ UNCHANGED <<args, features, prescan_results, enriched, routed, tasks, finished,
                   rows_out, aborted, agent_results, final_results, notPl>>

Finalize ==
    /\ stage = "agents_written"
    /\ IF FinalizeRaises(agent_results)
         THEN stage' = "failed" /\ UNCHANGED final_results
         ELSE /\ final_results' = finalize(enriched, agent_results)
              /\ stage' = "done"
    /\ UNCHANGED <<args, features, prescan_results, enriched, routed, tasks, finished,
                   rows_out, aborted, agent_results, notPl>>

Next ==
    \/ Prescan
    \/ Enrich
    \/ RouteStage
    \/ Submit
    \/ \E k \in 1..Len(tasks) : TaskDone(k)
    \/ WriteResults
    \/ RunnerRaises
    \/ Finalize

Spec == Init /\ [][Next]_vars

(***************************************************************************)
(* finalize() on its own: every enriched row prescan can produce, with     *)
(* every table of up to max_agents_per_item verdicts for it.               *)
(***************************************************************************)
\* the cues that move prescan's required hint, law hits and boost
FinalizeTexts == SUBSET {"GDPR", "comply", "minor", "age_sensitive"}

\* (status, score) pairs the agents produce
VerdictKinds ==
    { <<"ISSUE", 900>>, <<"ISSUE", 800>>, <<"REVIEW", 600>>, <<"REVIEW", 400>>,
      <<"OK", 500>>, <<"OK", 300>> }

\* agent_results.csv rows of one enriched row, sorted by agent
VerdictRows(idx, kinds) ==
    [ k \in 1..Len(kinds) |->
        [ row_index |-> idx, agent |-> AgentOrder[k],
          status |-> kinds[k][1], score |-> kinds[k][2] ] ]

VerdictTables ==
    UNION { [1..n -> VerdictKinds] : n \in 0..MaxAgentsPerItem }

\* llm_enriched.csv of the feature under study followed by "Bug fix"
EnrichedOf(text) ==
    enrich_none_only(process_csv_with_prescan(<<text, BugFix>>),
                     EnrichReply("omitted", << >>, << >>))

FinalizeCalls ==
    { [ enr |-> EnrichedOf(text),
        ag |-> VerdictRows(0, kinds) \o VerdictRows(1, other) ] :
        text \in FinalizeTexts, kinds \in VerdictTables,
        other \in { << >>, << <<"OK", 300>> >> } }

FinalizeInit ==
    /\ fpc = "input"
    /\ farg \in FinalizeCalls
    /\ fres = << >>
    /\ RLIdle
    /\ PlIdle
    /\ EnIdle

FinalizeCall ==
    /\ fpc = "input"
    /\ IF FinalizeRaises(farg.ag)
         THEN fpc' = "raised" /\ UNCHANGED fres
         ELSE fpc' = "output" /\ fres' = finalize(farg.enr, farg.ag)
    /\ UNCHANGED <<farg, notFn>>

FinalizeNext == FinalizeCall

SpecFinalize == FinalizeInit /\ [][FinalizeNext]_vars

(***************************************************************************)
(* prescan on its own: one call on any text                                *)
(***************************************************************************)
\* the cues a text may contain
PrescanCues ==
    { "GDPR", "DSA", "SB976", "comply", "minor", "age_sensitive",
      "consent", "retention", "moderation" }

PrescanInit ==
    /\ fpc = "input"
    /\ farg \in SUBSET PrescanCues
    /\ fres = << >>
    /\ RLIdle
    /\ PlIdle
    /\ EnIdle

PrescanCall ==
    /\ fpc = "input"
    /\ fres' = prescan(farg)
    /\ fpc' = "output"
    /\ UNCHANGED <<farg, notFn>>

PrescanNext == PrescanCall

SpecPrescan == PrescanInit /\ [][PrescanNext]_vars

(***************************************************************************)
(* utils/json_parser.py and pipelines/llm_enrichment.py                    *)
(***************************************************************************)
\* one object of the LLM's array; feature_index is Num(i) for an integer i,
\* NotNum for anything else (a string, a float, a missing key)
AmbLlmObject(feature_index, classification, confidence, domains) ==
    [ present |-> TRUE,
      feature_index |-> feature_index,
      classification |-> classification,
      confidence |-> Num(confidence),
      domains |-> Cell("list", domains),
      primary_regions |-> Cell("list", << >>),
      related_regulations |-> Cell("list", << >>) ]

\* what client.generate does: it raises ("raise"), or returns a text of one
\* of these forms:
\*   "garbage"        prose without JSON
\*   "array"          a JSON array of objects
\*   "fenced"         the same array inside a ```json fence
\*   "empty_object"   {}
\*   "object_nolist"  one JSON object whose values are scalars
\*   "object_lists"   one JSON object with several list-valued fields
RawText(form, objs) == [form |-> form, objs |-> objs]

\* strict_json_array: json.loads of the fenced part, of the text from the
\* first "[" to the last "]", or of the whole text.  An object without
\* brackets loads as a dict; an object with two lists is cut to
\* '[..], "k": [..]', which does not load.
strict_json_array(text) ==
    CASE text.form \in {"array", "fenced"} ->
            [ok |-> TRUE, type |-> "list", items |-> text.objs]
      [] text.form = "empty_object" ->
            [ok |-> TRUE, type |-> "dict", items |-> << >>]
      [] text.form = "object_nolist" ->
            [ok |-> TRUE, type |-> "dict",
             items |-> <<"feature_index", "classification", "confidence">>]
      [] OTHER -> [ok |-> FALSE, type |-> "none", items |-> << >>]

\* lines 69-71: obj.get on the elements; iterating a dict gives its keys,
\* and a str has no .get
ByIndexRaises(arr) == arr.type = "dict" /\ arr.items # << >>

\* {obj.get("feature_index"): obj for obj in arr if isinstance(.., int)}:
\* a later object replaces an earlier one with the same index
ByIndexOf(arr) ==
    IF arr.type # "list" THEN << >>
    ELSE LET objs == arr.items
             keyed == {k \in 1..Len(objs) : objs[k].feature_index.num}
             keys == {objs[k].feature_index.v : k \in keyed}
         IN  [ i \in keys |->
                 objs[CHOOSE k \in keyed :
                        /\ objs[k].feature_index.v = i
                        /\ \A j \in keyed : objs[j].feature_index.v = i => j <= k] ]

Ambig_to_list(c) ==
    IF c.kind \in {"list", "json"} THEN c.items ELSE << >>

\* lines 46-47: the gate
AmbiguousBoth(row) ==
    Ambig_to_list(row.prescan_domains) = << >> /\ row.prescan_required_hint = FALSE

Ambiguous(row) ==
    Ambig_to_list(row.prescan_domains) = << >> \/ row.prescan_required_hint = FALSE

\* lines 51-55: one item per ambiguous row, keyed by the row's index
Items(rows) ==
    SelectSeq([i \in 1..Len(rows) |-> i - 1], LAMBDA idx : Ambiguous(rows[idx + 1]))

\* build_master_prompt: the instructions, then one FEATURE block per item
build_master_prompt(items) ==
    [head |-> "master", feature_index |-> items]

\* lines 91-108: a row without an LLM object keeps its prescan values
CarryConf(boost) == Round2(Min(750 + boost, 950))

CarryPrescan(row) ==
    [ llm_classification |-> None,
      llm_confidence |-> NotNum,
      llm_domains |-> NoCell,
      llm_primary_regions |-> NoCell,
      llm_related_regulations |-> NoCell,
      final_domains |-> Cell("list", Ambig_to_list(row.prescan_domains)),
      final_primary_regions |-> Cell("list", Ambig_to_list(row.prescan_primary_regions)),
      final_related_regulations |-> Cell("list", Ambig_to_list(row.prescan_law_hits)),
      final_confidence |-> CarryConf(row.prescan_confidence_boost),
      final_classification |->
          IF row.prescan_required_hint THEN "REQUIRED" ELSE "NOT REQUIRED" ]

\* line 89: the values merge_prescan_llm returns, as cells of the table
MergedWithLlm(row, llm_obj) ==
    LET mm == merge_prescan_llm(row, llm_obj, DefaultGuard)
    IN  [ llm_classification |-> mm.llm_classification,
          llm_confidence |-> Num(mm.llm_confidence),
          llm_domains |-> Cell("list", mm.llm_domains),
          llm_primary_regions |-> Cell("list", mm.llm_primary_regions),
          llm_related_regulations |-> Cell("list", mm.llm_related_regulations),
          final_domains |-> Cell("list", mm.final_domains),
          final_primary_regions |-> Cell("list", mm.final_primary_regions),
          final_related_regulations |-> Cell("list", mm.final_related_regulations),
          final_confidence |-> mm.final_confidence,
          final_classification |-> mm.final_classification ]

\* lines 87-110 and the write of lines 116-121 for one row
AmbEnrichedRecord(row, idx, byidx) ==
    LET merged == IF idx \in DOMAIN byidx THEN MergedWithLlm(row, byidx[idx])
                  ELSE CarryPrescan(row)
    IN  [ feature |-> row.feature,
          prescan_required_hint |-> row.prescan_required_hint,
          prescan_domains |-> row.prescan_domains,
          prescan_primary_regions |-> row.prescan_primary_regions,
          prescan_law_hits |-> row.prescan_law_hits,
          prescan_confidence_boost |-> row.prescan_confidence_boost,
          llm_classification |-> merged.llm_classification,
          llm_confidence |-> merged.llm_confidence,
          llm_domains |-> WrittenList(merged.llm_domains),
          llm_primary_regions |-> WrittenList(merged.llm_primary_regions),
          llm_related_regulations |-> WrittenList(merged.llm_related_regulations),
          final_domains |-> WrittenList(merged.final_domains),
          final_primary_regions |-> WrittenList(merged.final_primary_regions),
          final_related_regulations |-> WrittenList(merged.final_related_regulations),
          final_confidence |-> merged.final_confidence,
          final_classification |-> merged.final_classification ]

\* the objects the LLM may put in its array
AmbLlmObjects ==
    { AmbLlmObject(fi, c[1], c[2], d) :
        fi \in {Num(i) : i \in RowIds} \cup {NotNum},
        c \in {<<"NOT REQUIRED", 900>>, <<"NOT REQUIRED", 500>>, <<"REQUIRED", 900>>},
        d \in {<< >>, <<"Privacy & Data Protection">>} }

\* a second object of the array
AmbSecondObjects ==
    { AmbLlmObject(Num(i), "REQUIRED", 900, <<"General Compliance">>) : i \in RowIds }

AmbReplies ==
    { RawText(form, << >>) :
        form \in {"raise", "garbage", "array", "fenced", "empty_object",
                  "object_nolist", "object_lists"} }
    \cup { RawText("array", <<o>>) : o \in AmbLlmObjects }
    \cup { RawText("array", <<o1, o2>>) : o1 \in AmbLlmObjects, o2 \in AmbSecondObjects }
    \cup { RawText("fenced", <<o>>) : o \in AmbSecondObjects }

AmbInit ==
    /\ apc = "start"
    /\ \E input \in [1..NumRows -> Features] : df = process_csv_with_prescan(input)
    /\ raw_text \in AmbReplies
    /\ llm_calls = 0
    /\ prompt = << >>
    /\ by_index = << >>
    /\ dump_file = << >>
    /\ out_csv = << >>
    /\ RLIdle
    /\ FnIdle
    /\ PlIdle

\* lines 45-62: the gate, the items and, if there is any, the one call
AmbGate ==
    /\ apc = "start"
    /\ IF Items(df) # << >>
         THEN /\ prompt' = build_master_prompt(Items(df))
              /\ llm_calls' = llm_calls + 1
              /\ apc' = "generating"
         ELSE /\ apc' = "merging"
              /\ UNCHANGED <<prompt, llm_calls>>
    /\ UNCHANGED <<df, raw_text, by_index, dump_file, out_csv, notEn>>

\* lines 62-71: generate returns or raises; the text is parsed; a text that
\* does not parse is written to llm_raw_response.txt inside the except block
AmbReply ==
    /\ apc = "generating"
    /\ LET arr == strict_json_array(raw_text)
       IN  IF raw_text.form = "raise"
             THEN apc' = "raised" /\ UNCHANGED <<by_index, dump_file>>
           ELSE IF ~arr.ok
             THEN apc' = "dumped" /\ dump_file' = <<raw_text>> /\ UNCHANGED by_index
           ELSE IF ByIndexRaises(arr)
             THEN apc' = "raised" /\ UNCHANGED <<by_index, dump_file>>
           ELSE apc' = "merging" /\ by_index' = ByIndexOf(arr) /\ UNCHANGED dump_file
    /\ UNCHANGED <<df, raw_text, llm_calls, prompt, out_csv, notEn>>

\* line 68: raise RuntimeError(...), after the dump
AmbRaise ==
    /\ apc = "dumped"
    /\ apc' = "raised"
    /\ UNCHANGED <<df, raw_text, llm_calls, prompt, by_index, dump_file, out_csv, notEn>>

\* lines 75-122: the merge loop and the write
AmbMerge ==
    /\ apc = "merging"
    /\ out_csv' = [i \in 1..Len(df) |-> AmbEnrichedRecord(df[i], i - 1, by_index)]
    /\ apc' = "done"
    /\ UNCHANGED <<df, raw_text, llm_calls, prompt, by_index, dump_file, notEn>>

AmbNext ==
    \/ AmbGate
    \/ AmbReply
    \/ AmbRaise
    \/ AmbMerge

SpecAmb == AmbInit /\ [][AmbNext]_vars

(***************************************************************************)
(* agents/base.py and agents/*.py: one call of <Agent>.check, with the     *)
(* generate calls of BaseAgent.llm_json as steps                           *)
(***************************************************************************)
\* llm_json(..., retries: int = 2)
Retries == 2

\* expect_keys = ("status", "reasoning")
ExpectKeys == {"status", "reasoning"}

\* what one llm.generate call gives back: text that _parse turns into a dict
\* with these keys and this status, text without any JSON object, or an
\* exception
VerdictObject(keys, status) == [kind |-> "object", keys |-> keys, status |-> status]
Garbage == [kind |-> "garbage", keys |-> {}, status |-> None]
GenerateRaises == [kind |-> "raise", keys |-> {}, status |-> None]

Responses ==
    { VerdictObject(ExpectKeys, st) : st \in {"ISSUE", "REVIEW", "OK", "MAYBE"} }
    \cup { VerdictObject({"status"}, "ISSUE"), VerdictObject({}, None), Garbage, GenerateRaises }

\* _parse: the dict, or None
Parse(raw) == IF raw.kind = "object" THEN raw ELSE Garbage

AcceptsAnyObject(obj) == obj.kind = "object"

\* "if obj and all(k in obj for k in expect_keys)"
Accepts(obj) == obj.kind = "object" /\ obj.keys # {} /\ ExpectKeys \subseteq obj.keys

GateIgnoresMode(a, status) == a.llm /\ a.llm_enabled

\* "if self.llm and self.llm_enabled and (self.llm_mode == "always" or
\* status == "REVIEW")"
UsesLlm(a, status) ==
    a.llm /\ a.llm_enabled /\ (a.llm_mode = "always" \/ status = "REVIEW")

\* the texts each agent is called with
AgentCues(agent) ==
    CASE agent = "ChildSafetyAgent" -> {"minor", "age_sensitive", "moderation", "policy"}
      [] agent = "PrivacyAgent" ->
           {"consent", "retention", "opt_in", "default_private", "visibility_settings"}
      [] agent = "ModerationAgent" ->
           {"moderation", "minor", "appeal_flow", "transparency_report",
            "restricted_mode", "notice"}
      [] agent = "GeneralComplianceAgent" -> {"comply", "region", "policy"}

CheckCalls ==
    UNION { [ agent : {agent}, text : SUBSET AgentCues(agent), llm : BOOLEAN,
              llm_enabled : BOOLEAN, llm_mode : {"always", "review_only"} ] :
            agent \in AGENT_REGISTRY }

CheckInit ==
    /\ fpc = "call"
    /\ farg \in CheckCalls
    /\ fres = << >>
    /\ RLIdle
    /\ PlIdle
    /\ EnIdle

\* check up to the LLM condition: the rule-based score and status
CheckRules ==
    /\ fpc = "call"
    /\ LET s == RuleScore(farg.agent, farg.text)
       IN  /\ fres' = [ s |-> s, status |-> RuleStatus(s), raws |-> << >>,
                        obj |-> Garbage, verdict |-> << >> ]
           /\ fpc' = IF UsesLlm(farg, RuleStatus(s)) THEN "llm_json" ELSE "verdict"
    /\ UNCHANGED <<farg, notFn>>

\* one pass of the loop of llm_json
Generate ==
    /\ fpc = "llm_json"
    /\ \E raw \in Responses :
         LET raws == Append(fres.raws, raw)
         IN  IF raw.kind = "raise"
               THEN /\ fpc' = "raised"
                    /\ fres' = [fres EXCEPT !.raws = raws]
             ELSE IF Accepts(Parse(raw))
               THEN /\ fpc' = "verdict"
                    /\ fres' = [fres EXCEPT !.raws = raws, !.obj = Parse(raw)]
             ELSE /\ fpc' = IF Len(raws) = Retries + 1 THEN "verdict" ELSE "llm_json"
                  /\ fres' = [fres EXCEPT !.raws = raws]
    /\ UNCHANGED <<farg, notFn>>

\* the rest of check: the override and the verdict
CheckReturn ==
    /\ fpc = "verdict"
    /\ fres' = [fres EXCEPT !.verdict =
                    check(farg.agent, farg.text,
                          IF fres.obj.kind = "object" THEN fres.obj.status ELSE "bad")]
    /\ fpc' = "returned"
    /\ UNCHANGED <<farg, notFn>>

CheckNext == CheckRules \/ Generate \/ CheckReturn

SpecCheck == CheckInit /\ [][CheckNext]_vars

(***************************************************************************)
(* C1: for any number of threads calling generate concurrently and every   *)
(* interleaving, any two calls delegated to the underlying client          *)
(* (inner.generate) start at least min_interval apart.                     *)
(***************************************************************************)
C1_DelegatedCallsSpaced ==
    \A t1 \in Threads : \A t2 \in Threads :
        (t1 # t2 /\ started[t1] >= 0 /\ started[t2] >= 0) =>
            \/ started[t1] - started[t2] >= MinInterval
            \/ started[t2] - started[t1] >= MinInterval

(***************************************************************************)
(* C2: in merge_prescan_llm, for every row with prescan_required_hint =    *)
(* True, if the LLM classification is NOT REQUIRED and the LLM confidence  *)
(* is below the downgrade guard, final_classification is                   *)
(* "REQUIRES REVIEW (rules hint REQUIRED)", never "NOT REQUIRED".          *)
(***************************************************************************)
C2_Case ==
    /\ fpc = "output"
    /\ farg.row.prescan_required_hint
    /\ farg.llm.present
    /\ farg.llm.classification = "NOT REQUIRED"
    /\ CoerceFloat(farg.llm.confidence) < farg.guard

C2_DowngradeGuard ==
    C2_Case => fres.final_classification = "REQUIRES REVIEW (rules hint REQUIRED)"

\* a guarded row whose boosted confidence is above the guard
C2_Witness ==
    /\ C2_Case
    /\ fres.final_confidence >= farg.guard
    /\ fres.final_classification = "REQUIRES REVIEW (rules hint REQUIRED)"

(***************************************************************************)
(* C10: merge_prescan_llm returns final_domains containing every prescan   *)
(* domain and every LLM domain (likewise regions and regulations), as a    *)
(* sorted list without duplicates; neither source is lost.                 *)
(***************************************************************************)
SortedNoDup(q) == \A i \in 1..Len(q) : \A j \in 1..Len(q) : i < j => Rank(q[i]) < Rank(q[j])

UnionOf(final, pre, llm) ==
    /\ Range(Merge_to_list(pre)) \subseteq Range(final)
    /\ Range(llm) \subseteq Range(final)
    /\ SortedNoDup(final)

C10_UnionInvariant ==
    fpc = "output" =>
        /\ UnionOf(fres.final_domains, farg.row.prescan_domains, fres.llm_domains)
        /\ UnionOf(fres.final_primary_regions, farg.row.prescan_primary_regions,
                   fres.llm_primary_regions)
        /\ UnionOf(fres.final_related_regulations, farg.row.prescan_law_hits,
                   fres.llm_related_regulations)
        /\ farg.llm.present /\ farg.llm.domains.kind = "list"
              => fres.llm_domains = farg.llm.domains.items

\* both sources contribute, out of order and overlapping
C10_Witness ==
    /\ fpc = "output"
    /\ farg.row.prescan_domains = Cell("json", <<"Privacy & Data Protection", "Child Safety">>)
    /\ farg.llm.present
    /\ farg.llm.domains = Cell("list", <<"General Compliance", "Child Safety">>)
    /\ fres.final_domains = <<"Child Safety", "General Compliance", "Privacy & Data Protection">>


(***************************************************************************)
(* C9: for every row with non-empty manual_agents and every router         *)
(* configuration, route_row returns exactly manual_agents minus            *)
(* skip_agents, whatever the row's domains, regions, llm_domains or boost. *)
(***************************************************************************)
C9_ManualCase ==
    /\ fpc = "output"
    /\ Router_to_list(farg.row.manual_agents) # << >>

C9_ManualMinusSkip == Without(Router_to_list(farg.row.manual_agents),
                              Range(Router_to_list(farg.row.skip_agents)))

\* the claim as stated
C9_ExactlyManualMinusSkip ==
    C9_ManualCase => fres.agents = C9_ManualMinusSkip

\* the claim as amended: manual minus skip, cut to max_agents_per_item, the
\* human-review agent when nothing is left, and nothing at all when the
\* only_llm skip applies
C9_ManualOverride ==
    C9_ManualCase =>
        fres.agents =
            IF /\ farg.cfg.only_llm
               /\ Router_to_list(farg.row.llm_domains) = << >>
               /\ farg.row.prescan_confidence_boost # 0
              THEN << >>
            ELSE IF C9_ManualMinusSkip = << >>
              THEN <<farg.cfg.human_review_agent>>
            ELSE SubSeq(C9_ManualMinusSkip, 1,
                        Min(farg.cfg.max_agents_per_item, Len(C9_ManualMinusSkip)))

\* scenario 4, on a row whose computed domains map to other agents
C9_Witness ==
    /\ C9_ManualCase
    /\ farg.row.manual_agents = Cell("json", <<"PrivacyAgent">>)
    /\ farg.row.skip_agents = Cell("json", <<"ChildSafetyAgent">>)
    /\ farg.row.final_domains = Cell("json", <<"Child Safety">>)
    /\ farg.row.final_primary_regions = Cell("json", <<"EU">>)
    /\ fres.agents = <<"PrivacyAgent">>

(***************************************************************************)
(* C3: for every set of agent verdicts of a row, finalize classifies the   *)
(* row REQUIRED if any verdict has status ISSUE, however many OK or REVIEW *)
(* verdicts stand beside it, else NEEDS HUMAN REVIEW if any verdict has    *)
(* status REVIEW, else NOT REQUIRED.  (A row without any verdict that      *)
(* prescan flagged required is classified by the fallback of C8.)          *)
(***************************************************************************)
C3_Precedence(agent_rows) ==
    IF \E i \in 1..Len(agent_rows) : agent_rows[i].status = "ISSUE" THEN "REQUIRED"
    ELSE IF \E i \in 1..Len(agent_rows) : agent_rows[i].status = "REVIEW"
      THEN "NEEDS HUMAN REVIEW"
    ELSE "NOT REQUIRED"

C4_Written == stage \in {"agents_written", "done"}

\* the result rows, fixed by the routed input alone
C4_ResultRows ==
    {TaskOutcome(k).rec : k \in {j \in 1..Len(tasks) : TaskOutcome(j).kind = "row"}}

C4_SortedOutput ==
    C4_Written =>
        /\ Range(agent_results) = C4_ResultRows
        /\ Len(agent_results) = Cardinality(C4_ResultRows)
        /\ \A i \in 1..Len(agent_results) : \A j \in 1..Len(agent_results) :
              i < j =>
                 \/ agent_results[i].row_index < agent_results[j].row_index
                 \/ /\ agent_results[i].row_index = agent_results[j].row_index
                    /\ AgentRank(agent_results[i].agent) < AgentRank(agent_results[j].agent)

\* the tasks completed in another order than the one written
C4_Witness ==
    /\ C4_Written
    /\ Len(agent_results) >= 3
    /\ rows_out # agent_results

(***************************************************************************)
(* C5: a complete run (prescan, enrichment, routing, agents, finalization) *)
(* gives every input feature row exactly one prescan result, exactly one   *)
(* enrichment result, at most max_agents_per_item agent verdicts and       *)
(* exactly one final record; no row is dropped or duplicated at any stage. *)
(***************************************************************************)
C5_OnePerRow(table) ==
    /\ Len(table) = Len(features)
    /\ \A i \in 1..Len(features) : table[i].feature = features[i]

C5_VerdictsOf(i) == {k \in 1..Len(agent_results) : agent_results[k].row_index = i - 1}

C5_OneRecordPerStage ==
    /\ stage \notin {"input", "failed"} => C5_OnePerRow(prescan_results)
    /\ stage \notin {"input", "prescanned", "failed"} => C5_OnePerRow(enriched)
    /\ stage \notin {"input", "prescanned", "enriched", "failed"} => C5_OnePerRow(routed)
    /\ C4_Written =>
          /\ \A i \in 1..Len(features) : Cardinality(C5_VerdictsOf(i)) <= MaxAgentsPerItem
          /\ \A k \in 1..Len(agent_results) : agent_results[k].row_index \in RowIds
    /\ stage = "done" => C5_OnePerRow(final_results)

\* a finished run in which one row has as many verdicts as the cap allows
\* and another has none
C5_Witness ==
    /\ stage = "done"
    /\ \E i \in 1..Len(features) : Cardinality(C5_VerdictsOf(i)) = MaxAgentsPerItem
    /\ \E i \in 1..Len(features) : Cardinality(C5_VerdictsOf(i)) = 0

(***************************************************************************)
(* C6: a feature whose prescan sets required_hint through an explicit law  *)
(* hit - "ASL for EU" / "Age-sensitive logic implementation for European   *)
(* Union GDPR compliance": GDPR matched, an age-control term matched, no   *)
(* minor term - ends the pipeline, run with rule-only agents, with Final   *)
(* Classification REQUIRED.                                                *)
(***************************************************************************)
C6_AslForEuRequired ==
    (stage = "done" /\ args.llm_flag = "none") =>
        \A i \in 1..Len(features) :
            features[i] = AslForEu => final_results[i].final_classification = "REQUIRED"

(***************************************************************************)
(* C7: when one (row, agent) task of the agent runner raises, the sibling  *)
(* tasks still run to completion and agent_results.csv is still written,   *)
(* with the verdict of every task that completed successfully.             *)
(***************************************************************************)
C7_SiblingsRun == aborted /\ stage # "agents" => AllDone

C7_OutputStillWritten ==
    /\ C7_SiblingsRun
    /\ (aborted /\ AllDone /\ stage # "agents") =>
          \A k \in 1..Len(tasks) :
              TaskOutcome(k).kind = "row" =>
                  \E j \in 1..Len(agent_results) : agent_results[j] = TaskOutcome(k).rec

(***************************************************************************)
(* C8: in finalize, a row with no agent verdict that prescan flagged       *)
(* required (prescan_required_hint, or a non-empty prescan_law_hits) gets  *)
(* Final Classification REQUIRED with confidence                           *)
(* min(0.95, 0.70 + prescan_confidence_boost); it is never NOT REQUIRED.   *)
(***************************************************************************)
C8_FallbackCase(i) ==
    /\ fpc = "output"
    /\ AgentRowsOf(farg.ag, i - 1) = << >>
    /\ \/ farg.enr[i].prescan_required_hint
       \/ farg.enr[i].prescan_law_hits.items # << >>

C11_TwoCallers(a, b) ==
    /\ a # b
    /\ called[a] >= 0
    /\ called[b] = called[a] + 1
    /\ \A t \in Threads \ {a, b} : called[t] = -1

C11_SecondNotBeforeInterval ==
    \A a \in Threads : \A b \in Threads :
        (C11_TwoCallers(a, b) /\ tpc[b] = "done") =>
            now >= called[a] + MinInterval

C11_Witness ==
    \E a \in Threads : \E b \in Threads :
        /\ C11_TwoCallers(a, b)
        /\ tpc[a] = "done"
        /\ tpc[b] = "done"
        /\ now = called[a] + MinInterval

(***************************************************************************)
(* C12: in merge_prescan_llm the downgrade guard applies in no other case: *)
(* when the LLM classification is NOT REQUIRED and either                  *)
(* prescan_required_hint is False (for any LLM confidence) or the LLM      *)
(* confidence is at least the guard threshold, final_classification is     *)
(* NOT REQUIRED.                                                           *)
(***************************************************************************)
C12_Case ==
    /\ fpc = "output"
    /\ farg.llm.present
    /\ farg.llm.classification = "NOT REQUIRED"
    /\ \/ ~farg.row.prescan_required_hint
       \/ (farg.llm.confidence.num /\ farg.llm.confidence.v >= farg.guard)

C12_NoOtherDowngrade ==
    C12_Case => fres.final_classification = "NOT REQUIRED"

\* a required hint overridden by a confidence exactly at the guard
C12_Witness ==
    /\ C12_Case
    /\ fres.final_classification = "NOT REQUIRED"
    /\ farg.row.prescan_required_hint
    /\ farg.llm.confidence = Num(farg.guard)

(***************************************************************************)
(* C13: after the agent runner finishes, the agent-results table holds     *)
(* exactly one row for every (row_index, agent) pair in which agent is     *)
(* listed in that row's route_agents: no routed pair is missing and none   *)
(* appears twice.                                                          *)
(***************************************************************************)
C13_RowsFor(idx, agent) ==
    SelectSeq(agent_results, LAMBDA r : r.row_index = idx /\ r.agent = agent)

C13_OneRowPerRoutedPair ==
    stage \in {"agents_written", "done"} =>
        \A i \in 1..Len(routed) :
            \A agent \in Range(Runner_to_list(routed[i].route_agents)) :
                Len(C13_RowsFor(i - 1, agent)) = 1

(***************************************************************************)
(* C14: if, during an agent's check, the LLM call raises or no attempt     *)
(* yields a well-formed object with the required keys, the error is caught *)
(* inside llm_json, llm_json returns None, and check returns exactly the   *)
(* status and score of the rule-only evaluation; no exception escapes the  *)
(* agent.                                                                  *)
(***************************************************************************)
C14_LlmFails(k) ==
    /\ tasks[k].agent \in AGENT_REGISTRY
    /\ LlmReplyFor(tasks[k].idx, routed[tasks[k].idx + 1], args) \in {"raise", "bad"}

C14_RuleOnly(k) ==
    LET s == RuleScore(tasks[k].agent, routed[tasks[k].idx + 1].feature)
    IN  /\ TaskOutcome(k).kind = "row"
        /\ TaskOutcome(k).rec.status = RuleStatus(s)
        /\ TaskOutcome(k).rec.score = FloatRound2(s)

C14_LlmErrorsDegrade ==
    \A k \in 1..Len(tasks) : C14_LlmFails(k) => C14_RuleOnly(k)

\* the part of C14 the code keeps: unusable replies degrade to the rules
C14_BadReplyDegrades ==
    \A k \in 1..Len(tasks) :
        (C14_LlmFails(k) /\ LlmReplyFor(tasks[k].idx, routed[tasks[k].idx + 1], args) = "bad")
            => C14_RuleOnly(k)

(***************************************************************************)
(* C16: for every input text, prescan's confidence_boost equals            *)
(* min(0.30, 0.20 [any law hit] + 0.05 [compliance phrasing] + 0.10 [minor *)
(* term and age-control term both match]) and therefore always lies in     *)
(* [0, 0.30].                                                              *)
(***************************************************************************)
C16_Sum ==
    (IF farg \cap {"GDPR", "DSA", "SB976"} # {} THEN 200 ELSE 0)
    + (IF "comply" \in farg THEN 50 ELSE 0)
    + (IF {"minor", "age_sensitive"} \subseteq farg THEN 100 ELSE 0)

C16_BoostCapped ==
    fpc = "output" =>
        /\ fres.confidence_boost = (IF C16_Sum < 300 THEN C16_Sum ELSE 300)
        /\ fres.confidence_boost >= 0
        /\ fres.confidence_boost <= 300

\* all three bonuses at once: 0.35 is cut to 0.30
C16_Witness ==
    /\ fpc = "output"
    /\ C16_Sum = 350
    /\ fres.confidence_boost = 300

(***************************************************************************)
(* C17: for every row merged with an LLM object, merge_prescan_llm sets    *)
(* final_confidence = min(llm_confidence + prescan_confidence_boost,       *)
(* 0.99), so final_confidence never exceeds 0.99.                          *)
(***************************************************************************)
C17_Case == fpc = "output" /\ farg.llm.present

\* min(llm_confidence + boost, 0.99), a confidence float() rejects counting 0.0
C17_Capped ==
    Min(CoerceFloat(farg.llm.confidence) + farg.row.prescan_confidence_boost, 990)

\* as stated: the capped sum itself
C17_ExactlyCappedSum ==
    C17_Case => fres.final_confidence = C17_Capped /\ fres.final_confidence <= 990

\* what the code computes: the capped sum rounded to two decimals, i.e. the
\* hundredth nearest to it
C17_RoundedCappedSum ==
    C17_Case =>
        /\ fres.final_confidence % 10 = 0
        /\ fres.final_confidence - C17_Capped <= 5
        /\ C17_Capped - fres.final_confidence <= 5
        /\ fres.final_confidence <= 990

C17_Witness ==
    /\ C17_Case
    /\ farg.llm.confidence = Num(795)
    /\ farg.row.prescan_confidence_boost = 0
    /\ fres.final_confidence = 800


(***************************************************************************)
(* C15: in enrich_ambiguous_with_llm, when the LLM response for the batch  *)
(* cannot be parsed as a JSON array, the raw response text is written to   *)
(* disk first and then a hard error is raised; no enriched output is       *)
(* written and no row is merged from that response.                        *)
(***************************************************************************)
\* the call has returned a text that is no JSON array
C15_NotAnArray ==
    /\ apc \notin {"start", "generating"}
    /\ llm_calls = 1
    /\ raw_text.form \in {"garbage", "empty_object", "object_nolist", "object_lists"}

C15_DumpedThenRaised ==
    C15_NotAnArray =>
        /\ apc \in {"dumped", "raised"}
        /\ dump_file = <<raw_text>>
        /\ out_csv = << >>

\* the part of C15 the code keeps: a text json.loads rejects is dumped
\* before the error, and nothing else is written
C15_RejectedTextDumped ==
    (C15_NotAnArray /\ raw_text.form \in {"garbage", "object_lists"}) =>
        /\ apc \in {"dumped", "raised"}
        /\ dump_file = <<raw_text>>
        /\ out_csv = << >>

(***************************************************************************)
(* C18: for every non-ambiguous row (prescan domains non-empty and         *)
(* prescan_required_hint True) and for every possible content of the LLM   *)
(* response, enrichment leaves the llm_* fields empty and sets             *)
(* final_domains, final_primary_regions and final_related_regulations to   *)
(* the prescan values, final_confidence to min(0.75 + boost, 0.95), and    *)
(* final_classification to REQUIRED iff prescan_required_hint else NOT     *)
(* REQUIRED.                                                               *)
(***************************************************************************)
C18_NonAmbiguous(i) ==
    /\ df[i].prescan_domains.items # << >>
    /\ df[i].prescan_required_hint

C18_PrescanCarried(i) ==
    /\ out_csv[i].llm_classification = None
    /\ out_csv[i].llm_confidence = NotNum
    /\ out_csv[i].llm_domains.items = << >>
    /\ out_csv[i].llm_primary_regions.items = << >>
    /\ out_csv[i].llm_related_regulations.items = << >>
    /\ out_csv[i].final_domains.items = df[i].prescan_domains.items
    /\ out_csv[i].final_primary_regions.items = df[i].prescan_primary_regions.items
    /\ out_csv[i].final_related_regulations.items = df[i].prescan_law_hits.items
    /\ out_csv[i].final_confidence =
          (IF 750 + df[i].prescan_confidence_boost < 950
             THEN 750 + df[i].prescan_confidence_boost ELSE 950)
    /\ out_csv[i].final_classification = "REQUIRED"

C18_NonAmbiguousUntouched ==
    apc = "done" => \A i \in 1..Len(df) : C18_NonAmbiguous(i) => C18_PrescanCarried(i)

\* the part of C18 the code keeps: a non-ambiguous row the response has no
\* object for
C18_UntouchedWhenNotAnswered ==
    apc = "done" =>
        \A i \in 1..Len(df) :
            (C18_NonAmbiguous(i) /\ (i - 1) \notin DOMAIN by_index) => C18_PrescanCarried(i)

(***************************************************************************)
(* C19: for every ambiguous row for which no LLM object is available (the  *)
(* LLM is absent or the response carries no object with that row's         *)
(* feature_index), the enrichment's final classification is NEEDS HUMAN    *)
(* REVIEW when the row has no final domains and REQUIRED otherwise; such a *)
(* row is never classified NOT REQUIRED.                                   *)
(***************************************************************************)
C19_Unanswered(i) ==
    /\ (df[i].prescan_domains.items = << >> \/ ~df[i].prescan_required_hint)
    /\ (i - 1) \notin DOMAIN by_index

C19_UnansweredNeverNotRequired ==
    apc = "done" =>
        \A i \in 1..Len(df) :
            C19_Unanswered(i) =>
                out_csv[i].final_classification =
                    (IF out_csv[i].final_domains.items = << >>
                       THEN "NEEDS HUMAN REVIEW" ELSE "REQUIRED")

(***************************************************************************)
(* C20: in one run of enrich_ambiguous_with_llm, the LLM client's generate *)
(* is called at most once: exactly once, with a prompt listing exactly the *)
(* ambiguous rows (no prescan domains OR prescan_required_hint == False),  *)
(* when at least one row is ambiguous, and zero times when none is.        *)
(***************************************************************************)
C20_AmbiguousRows ==
    { i \in 1..Len(df) :
        df[i].prescan_domains.items = << >> \/ ~df[i].prescan_required_hint }

C20_OneBatchedCall ==
    /\ llm_calls <= 1
    /\ apc \notin {"unused", "start"} =>
          IF C20_AmbiguousRows = {}
            THEN llm_calls = 0
            ELSE /\ llm_calls = 1
                 /\ Len(prompt.feature_index) = Cardinality(C20_AmbiguousRows)
                 /\ Range(prompt.feature_index) = {i - 1 : i \in C20_AmbiguousRows}

\* a finished run in which one row was sent to the LLM and another was not
C20_Witness ==
    /\ apc = "done"
    /\ llm_calls = 1
    /\ C20_AmbiguousRows # {}
    /\ C20_AmbiguousRows # 1..Len(df)
    /\ Range(prompt.feature_index) = {i - 1 : i \in C20_AmbiguousRows}

(***************************************************************************)
(* C21: in enrich_ambiguous_with_llm, the enriched result of each row      *)
(* depends only on the response object carrying that row's integer         *)
(* feature_index and never on the object's position in the returned array: *)
(* every reordering of the same response array yields the same enriched    *)
(* output.                                                                 *)
(***************************************************************************)
\* the same response with its objects in the opposite order
C21_Reordered ==
    RawText(raw_text.form,
            [k \in 1..Len(raw_text.objs) |-> raw_text.objs[Len(raw_text.objs) + 1 - k]])

C21_OutputFor(text) ==
    [i \in 1..Len(df) |->
        AmbEnrichedRecord(df[i], i - 1, ByIndexOf(strict_json_array(text)))]

C21_OrderIndependent ==
    (apc = "done" /\ llm_calls = 1 /\ raw_text.form \in {"array", "fenced"}) =>
        out_csv = C21_OutputFor(C21_Reordered)

\* the part of C21 the code keeps: arrays in which no two objects carry the
\* same integer feature_index
C21_DistinctIndices ==
    \A j \in 1..Len(raw_text.objs) : \A k \in 1..Len(raw_text.objs) :
        (j # k /\ raw_text.objs[j].feature_index.num)
            => raw_text.objs[j].feature_index # raw_text.objs[k].feature_index

C21_OrderIndependentWhenDistinct ==
    (apc = "done" /\ llm_calls = 1 /\ raw_text.form \in {"array", "fenced"} /\ C21_DistinctIndices) =>
        out_csv = C21_OutputFor(C21_Reordered)

(***************************************************************************)
(* C22: in category-only mode without manual agents, route_row returns the *)
(* domain-mapped agents followed by the region-override agents, with       *)
(* duplicates removed keeping first-seen order and truncated to            *)
(* max_agents_per_item; when nothing maps it returns exactly               *)
(* [default_agent].  The returned list is never empty and never longer     *)
(* than max_agents_per_item.                                               *)
(***************************************************************************)
C22_Case ==
    /\ fpc = "output"
    /\ farg.cfg.category_only
    /\ Router_to_list(farg.row.manual_agents) = << >>

\* the agents of the row's domains, then those of its regions
C22_Mapped ==
    MapKnown(Router_to_list(farg.row.final_domains), DOMAIN_TO_AGENT)
    \o MapKnown(Router_to_list(farg.row.final_primary_regions), REGION_AGENT_OVERRIDES)

C22_Skip == Range(Router_to_list(farg.row.skip_agents))

\* as stated: skip_agents and the only_llm skip play no part
C22_DedupedMapped ==
    C22_Case =>
        /\ fres.agents = (IF C22_Mapped = << >> THEN <<farg.cfg.default_agent>>
                          ELSE Take(UniqueKeepOrder(C22_Mapped), farg.cfg.max_agents_per_item))
        /\ Len(fres.agents) >= 1
        /\ Len(fres.agents) <= farg.cfg.max_agents_per_item

\* as the code has it: the skipped agents are dropped before the dedupe, the
\* default agent also stands in when every mapped agent is skipped, and a row
\* the only_llm mode skips gets no agent
C22_CategoryOnlyRoute ==
    C22_Case =>
        IF OnlyLlmSkip(farg.row, farg.cfg) THEN fres.agents = << >>
        ELSE /\ fres.agents =
                  (IF SelectSeq(C22_Mapped, LAMBDA a : a \notin C22_Skip) = << >>
                     THEN <<farg.cfg.default_agent>>
                     ELSE Take(UniqueKeepOrder(SelectSeq(C22_Mapped, LAMBDA a : a \notin C22_Skip)),
                               farg.cfg.max_agents_per_item))
             /\ Len(fres.agents) >= 1
             /\ Len(fres.agents) <= farg.cfg.max_agents_per_item

\* a region named twice: its agent is kept once, where it first appears
C22_Witness ==
    /\ C22_Case
    /\ ~OnlyLlmSkip(farg.row, farg.cfg)
    /\ C22_Skip = {}
    /\ Len(C22_Mapped) = 4
    /\ fres.agents = <<"ChildSafetyAgent", "EUComplianceAgent", "CaliforniaPrivacyAgent">>

(***************************************************************************)
(* C28: for every row and every router configuration, no agent named in    *)
(* the row's skip_agents appears in the agents list returned by route_row, *)
(* including when the list falls back to the default or human-review       *)
(* agent.                                                                  *)
(***************************************************************************)
C28_NoSkippedAgentRouted ==
    fpc = "output" =>
        Range(fres.agents) \cap Range(Router_to_list(farg.row.skip_agents)) = {}

\* the part of C28 the code keeps: the lists built from manual_agents or from
\* the mapped agents, before any fallback
C28_NoSkippedAgentUnlessFallback ==
    (fpc = "output" /\ fres.agents \notin {<<farg.cfg.default_agent>>,
                                           <<farg.cfg.human_review_agent>>}) =>
        Range(fres.agents) \cap Range(Router_to_list(farg.row.skip_agents)) = {}

(***************************************************************************)
(* C23: for every row finalize classifies from its agent verdicts, the     *)
(* confidence is the maximum score of the ISSUE verdicts when the class is *)
(* REQUIRED (0.75 if none is recorded), the mean score of the REVIEW       *)
(* verdicts when it is NEEDS HUMAN REVIEW (0.6 if none) and 0.9 when it is *)
(* NOT REQUIRED.                                                           *)
(***************************************************************************)
\* the rows that take lines 282-286
C23_VerdictPath(i) ==
    /\ fpc = "output"
    /\ ~(AgentRowsOf(farg.ag, i - 1) = << >> /\ PrescanRequired(farg.enr[i]))

C23_Scores(i, label) ==
    LET sub == SelectSeq(AgentRowsOf(farg.ag, i - 1), LAMBDA r : r.status = label)
    IN  [k \in 1..Len(sub) |-> sub[k].score]

C23_Total(q) == SumOver(1..Len(q), q)

\* as stated: the exact mean, and 0.9 for every NOT REQUIRED row
C23_ConfidenceAsStated ==
    \A i \in 1..Len(farg.enr) :
        C23_VerdictPath(i) =>
            LET issue == C23_Scores(i, "ISSUE")
                review == C23_Scores(i, "REVIEW")
                c == fres[i].confidence
            IN  /\ fres[i].final_classification = "REQUIRED" =>
                      IF issue = << >> THEN c = 750
                      ELSE /\ \E k \in 1..Len(issue) : c = issue[k]
                           /\ \A k \in 1..Len(issue) : c >= issue[k]
                /\ fres[i].final_classification = "NEEDS HUMAN REVIEW" =>
                      IF review = << >> THEN c = 600
                      ELSE c * Len(review) = C23_Total(review)
                /\ fres[i].final_classification = "NOT REQUIRED" => c = 900

\* as the code computes it: the value is rounded to two decimals (the mean is
\* within half a hundredth of the confidence), and a row without any verdict
\* gets 0.5
C23_ConfidenceRounded ==
    \A i \in 1..Len(farg.enr) :
        C23_VerdictPath(i) =>
            LET issue == C23_Scores(i, "ISSUE")
                review == C23_Scores(i, "REVIEW")
                c == fres[i].confidence
            IN  /\ c % 10 = 0
                /\ fres[i].final_classification = "REQUIRED" =>
                      IF issue = << >> THEN c = 750
                      ELSE /\ \E k \in 1..Len(issue) : c = issue[k]
                           /\ \A k \in 1..Len(issue) : c >= issue[k]
                /\ fres[i].final_classification = "NEEDS HUMAN REVIEW" =>
                      IF review = << >> THEN c = 600
                      ELSE /\ (c - 5) * Len(review) <= C23_Total(review)
                           /\ C23_Total(review) <= (c + 5) * Len(review)
                /\ fres[i].final_classification = "NOT REQUIRED" =>
                      c = IF AgentRowsOf(farg.ag, i - 1) = << >> THEN 500 ELSE 900

\* REVIEW verdicts of 0.6, 0.6 and 0.4: the mean 0.5333... is stored as 0.53
C23_Witness ==
    /\ C23_VerdictPath(1)
    /\ C23_Scores(1, "REVIEW") = <<600, 600, 400>>
    /\ fres[1].final_classification = "NEEDS HUMAN REVIEW"
    /\ fres[1].confidence = 530


(***************************************************************************)
(* C24: one llm_json invocation calls the LLM's generate at most 3 times   *)
(* (the prompt and up to 2 re-issues), stops at the first response that    *)
(* parses to a JSON object with all required keys and returns it, and      *)
(* returns None when none of the 3 responses does; a result other than     *)
(* None always holds every required key.                                   *)
(***************************************************************************)
C24_Accepted(raw) ==
    raw.kind = "object" /\ raw.keys # {} /\ {"status", "reasoning"} \subseteq raw.keys

\* llm_json has returned (fpc = "raised" is the generate call that raised)
C24_Returned == fpc \in {"verdict", "returned"} /\ fres.raws # << >>

C24_BoundedRetries ==
    /\ fpc \in {"llm_json", "verdict", "returned", "raised"} => Len(fres.raws) <= 3
    /\ C24_Returned =>
         LET n == Len(fres.raws)
         IN  /\ \A k \in 1..(n - 1) : ~C24_Accepted(fres.raws[k])
             /\ IF C24_Accepted(fres.raws[n])
                  THEN fres.obj = fres.raws[n]
                  ELSE n = 3 /\ fres.obj.kind # "object"
             /\ fres.obj.kind = "object" => {"status", "reasoning"} \subseteq fres.obj.keys

\* an object without "reasoning", then text without JSON, then a full object:
\* the third call's object is returned
C24_Witness ==
    /\ fpc = "returned"
    /\ Len(fres.raws) = 3
    /\ fres.raws[1] = VerdictObject({"status"}, "ISSUE")
    /\ fres.raws[2].kind = "garbage"
    /\ fres.obj = VerdictObject({"status", "reasoning"}, "REVIEW")

(***************************************************************************)
(* C25: an agent's check issues one structured LLM prompt through the      *)
(* gateway when an LLM client is attached and its mode is "always", or its *)
(* mode is "review_only" and the rule-based status is REVIEW; in every     *)
(* other case check makes no gateway call, so rule-only evaluation never   *)
(* waits on the rate limiter.                                              *)
(***************************************************************************)
\* check has ended, by a verdict or by the exception of a generate call
C25_Ended == fpc \in {"returned", "raised"}

\* as stated: the client and the mode decide
C25_PromptWhenAttached ==
    C25_Ended =>
        IF farg.llm /\ (farg.llm_mode = "always" \/ fres.status = "REVIEW")
          THEN Len(fres.raws) >= 1
          ELSE Len(fres.raws) = 0

\* as the code decides: llm_enabled must be set as well; the prompt is then
\* sent once and re-issued up to twice, and otherwise no call is ever made
C25_PromptWhenEnabled ==
    /\ C25_Ended =>
         IF farg.llm /\ farg.llm_enabled
            /\ (farg.llm_mode = "always" \/ fres.status = "REVIEW")
           THEN Len(fres.raws) \in 1..3
           ELSE Len(fres.raws) = 0
    /\ fpc = "llm_json" =>
         farg.llm /\ farg.llm_enabled
         /\ (farg.llm_mode = "always" \/ fres.status = "REVIEW")

\* review_only: a rule-based REVIEW asks the LLM
C25_Witness ==
    /\ fpc = "returned"
    /\ farg.llm /\ farg.llm_enabled /\ farg.llm_mode = "review_only"
    /\ fres.status = "REVIEW"
    /\ Len(fres.raws) = 1

(***************************************************************************)
(* C26: in each of the four agents, when the LLM response parses and its   *)
(* status is one of ISSUE, REVIEW, OK, the verdict's status is the LLM's   *)
(* status (overriding the rule-based status) and the verdict's score is    *)
(* 0.9 for ISSUE, 0.6 for REVIEW and max(rule_score, 0.5) for OK.          *)
(***************************************************************************)
C26_Remapped(status) ==
    CASE status = "ISSUE" -> 900
      [] status = "REVIEW" -> 600
      [] status = "OK" -> IF 50 * fres.s.d >= 500 THEN 50 * fres.s.d ELSE 500

C26_Overridden(status) ==
    /\ fres.verdict.status = status
    /\ fres.verdict.score = C26_Remapped(status)

\* as stated: every response that parses with a valid status overrides
C26_ParsedStatusOverrides ==
    fpc = "returned" =>
        \A k \in 1..Len(fres.raws) :
            LET raw == fres.raws[k]
            IN  (raw.kind = "object" /\ raw.status \in {"ISSUE", "REVIEW", "OK"}
                 /\ \A j \in 1..Len(fres.raws) :
                        fres.raws[j].kind = "object" => fres.raws[j] = raw)
                => C26_Overridden(raw.status)

\* as the code does it: the response must also hold the keys "status" and
\* "reasoning"; the first such response within the three calls decides
C26_AcceptedStatusOverrides ==
    fpc = "returned" =>
        LET ok == { k \in 1..Len(fres.raws) :
                      /\ fres.raws[k].kind = "object"
                      /\ {"status", "reasoning"} \subseteq fres.raws[k].keys }
        IN  IF ok # {} /\ fres.raws[Len(fres.raws)].status \in {"ISSUE", "REVIEW", "OK"}
              THEN C26_Overridden(fres.raws[Len(fres.raws)].status)
              ELSE /\ fres.verdict.status = fres.status
                   /\ fres.verdict.score = 50 * fres.s.d

\* a rule-based ISSUE of 0.8 taken down to OK by the LLM keeps the score 0.8
C26_Witness ==
    /\ fpc = "returned"
    /\ fres.status = "ISSUE"
    /\ fres.s.d = 16
    /\ fres.obj.kind = "object"
    /\ fres.verdict.status = "OK"
    /\ fres.verdict.score = 800

(***************************************************************************)
(* C27: for each of the four agents and every input row, the rule-based    *)
(* score lies in [0, 1] and the rule-based status is ISSUE iff             *)
(* score >= 0.65, REVIEW iff 0.35 <= score < 0.65 and OK otherwise, with   *)
(* the same thresholds for all agents.                                     *)
(***************************************************************************)
\* the score a rule-only verdict reports, against its status
C27_StatusByThreshold ==
    (fpc = "returned" /\ fres.raws = << >>) =>
        /\ fres.verdict.score \in 0..1000
        /\ fres.verdict.status = "ISSUE" <=> fres.verdict.score >= 650
        /\ fres.verdict.status = "REVIEW" <=>
               (350 <= fres.verdict.score /\ fres.verdict.score < 650)
        /\ fres.verdict.status = "OK" <=> fres.verdict.score < 350

\* away from a sum of weights that is 0.65 or 0.35 in decimal, it holds
C27_StatusByThresholdOffBoundary ==
    (fpc = "returned" /\ fres.raws = << >> /\ fres.verdict.score \notin {350, 650}) =>
        /\ fres.verdict.score \in 0..1000
        /\ fres.verdict.status = "ISSUE" <=> fres.verdict.score >= 650
        /\ fres.verdict.status = "REVIEW" <=>
               (350 <= fres.verdict.score /\ fres.verdict.score < 650)
        /\ fres.verdict.status = "OK" <=> fres.verdict.score < 350

(***************************************************************************)
(* C29: in only_llm routing mode, every row the router skips (agents = []  *)
(* because the row has no llm_domains and a non-zero                       *)
(* prescan_confidence_boost) is finalized with Final Classification        *)
(* REQUIRED and confidence min(0.95, 0.70 + prescan_confidence_boost); a   *)
(* non-zero boost always implies prescan_required_hint, so no skipped row  *)
(* ends as NOT REQUIRED.                                                   *)
(***************************************************************************)
C29_Skipped(i) ==
    /\ args.only_llm
    /\ routed # << >>
    /\ enriched[i].llm_domains.items = << >>
    /\ enriched[i].prescan_confidence_boost # 0
    /\ routed[i].route_agents.items = << >>

C29_RequiredByFallback(i) ==
    /\ Len(final_results) >= i
    /\ final_results[i].final_classification = "REQUIRED"
    /\ final_results[i].confidence =
         IF 700 + enriched[i].prescan_confidence_boost < 950
           THEN 700 + enriched[i].prescan_confidence_boost ELSE 950

\* the agent runner has written its results and finalize has run
C29_FinalizeRan == stage = "done" \/ (stage = "failed" /\ routed # << >> /\ ~aborted)

C29_SkippedRowsFinalizedRequired ==
    C29_FinalizeRan =>
        \A i \in 1..Len(enriched) :
            C29_Skipped(i) =>
                /\ enriched[i].prescan_required_hint
                /\ C29_RequiredByFallback(i)

\* what holds: the boost implies the hint, and when finalize completes the
\* skipped rows are REQUIRED with the fallback confidence
C29_SkippedRowsRequiredWhenDone ==
    /\ \A i \in 1..Len(enriched) :
           enriched[i].prescan_confidence_boost # 0 => enriched[i].prescan_required_hint
    /\ stage = "done" =>
           \A i \in 1..Len(enriched) : C29_Skipped(i) => C29_RequiredByFallback(i)

(***************************************************************************)
(* C30: under a fair scheduler, and provided each underlying client call   *)
(* returns or raises, every call to RateLimitedLLM.generate made by any of *)
(* the concurrent threads eventually acquires the lock, releases it and    *)
(* delegates to the underlying client; no interleaving deadlocks, and the  *)
(* lock is released on every path, including when a call fails.            *)
(***************************************************************************)
\* thread t has left the with-block
C30_Left(t) == tpc[t] \in {"released", "calling", "done", "raised"}

C30_EveryCallDelegates ==
    \A t \in Threads :
        /\ [](C30_Left(t) => lock # t)
        /\ (tpc[t] = "blocked") ~> (lock = t)
        /\ (called[t] >= 0) ~> (started[t] >= 0 /\ tpc[t] \in {"done", "raised"})
        /\ (tpc[t] = "raised") ~> (\A u \in Threads : called[u] >= 0 => C30_Left(u))

\* the first caller's underlying call has failed; the second caller holds
\* the lock now and waits out the interval since the first
C30_Witness ==
    /\ tpc[1] = "raised"
    /\ tpc[2] = "sleeping"
    /\ lock = 2
    /\ twake[2] > now
    /\ called[2] = 0

====
